---- MODULE Spec2Model ----
(***************************************************************************)
(* EMFreeRTOS: the FreeRTOS lesson programs for the ESP32.                 *)
(*                                                                         *)
(* Every program of the repository is a small set of tasks (and interrupt  *)
(* handlers) that cooperate through FreeRTOS queues, mutexes and           *)
(* semaphores.  Each program is modelled as its own state machine over its *)
(* own variables (prefix = program):                                       *)
(*     mc_  6-mutex-challenge          m6_  6-mutex                        *)
(*     q5_  5-queue                    qc_  5-queue-challenge              *)
(*     sc_  7-semaphore-counting                                           *)
(*     cs_  9-hardware-interrupts/main-demo-isr-critical-section           *)
(*     is_  9-hardware-interrupts/main-demo-isr-semaphore                  *)
(*     mm_  4-memory-management-challenge                                  *)
(*     ts_  3-task-scheduling-challenge-led                                *)
(*     sb_  7-semaphore-binary                                             *)
(* A program that is not running has every task at pc "off".               *)
(* Tasks of equal priority are time-sliced, so one step of a task is one   *)
(* statement (one kernel call, one load or one store of a shared variable) *)
(* and steps of different tasks interleave freely.                         *)
(***************************************************************************)
EXTENDS Integers, Sequences, FiniteSets, TLC

\* ------------------------------------------------------------------ bounds

\* Values typed on the serial line for delay_arg are drawn from 0..MaxDelayArg.
MaxDelayArg == 4

\* The mutex demo is explored until shared_var reaches MaxSharedVar.
MaxSharedVar == 4

\* The queue demo is explored until loop's num reaches MaxNum.
MaxNum == 8

\* The queue challenge is explored for up to MaxLines lines typed on the
\* serial terminal.
MaxLines == 6

\* ... and for up to MaxBlinks blinks of the LED.
MaxBlinks == 6

\* The interrupt demos are explored for up to MaxFirings firings of the timer.
MaxFirings == 4

\* analogRead returns a value in 0..MaxAdc.
MaxAdc == 1

\* ... and for up to MaxLoops calls of loop().
MaxLoops == 3

\* The memory challenge is explored for up to MaxMmLines lines typed on the
\* serial monitor...
MaxMmLines == 4

\* ... and with a heap that holds MaxHeapBlocks messages.
MaxHeapBlocks == 2

\* The LED challenge is explored for up to MaxTsLines lines typed on the
\* serial monitor.
MaxTsLines == 2

\* ------------------------------------------------------- FreeRTOS objects

\* A handle that was never assigned (a static handle is zero-initialised).
NULL == [uxLength |-> 0, uxMessagesWaiting |-> 0, pxMutexHolder |-> "none"]

\* xSemaphoreCreateMutex(): a queue of length 1 that starts with its one
\* token available and no holder.
xSemaphoreCreateMutex == [uxLength |-> 1, uxMessagesWaiting |-> 1, pxMutexHolder |-> "none"]

\* xSemaphoreTake can return pdTRUE exactly when a token is available.
SemAvailable(sem) == sem.uxMessagesWaiting > 0

\* The semaphore after a successful xSemaphoreTake by task `who` (a mutex
\* records its holder).
SemTaken(sem, who) ==
    [sem EXCEPT !.uxMessagesWaiting = @ - 1, !.pxMutexHolder = who]

\* A mutant of SemGiven: a give that ignores the maximum count.
SemGiven_uncapped(sem) ==
    [sem EXCEPT !.uxMessagesWaiting = @ + 1, !.pxMutexHolder = "none"]

\* The semaphore after xSemaphoreGive: the count goes up by one unless it is
\* already at its maximum, in which case the give fails and nothing changes.
SemGiven(sem) ==
    IF sem.uxMessagesWaiting < sem.uxLength
    THEN [sem EXCEPT !.uxMessagesWaiting = @ + 1, !.pxMutexHolder = "none"]
    ELSE sem

\* A queue handle that was never assigned.
NullQueue == [uxLength |-> 0, items |-> <<>>]

\* xQueueCreate(uxQueueLength, uxItemSize): an empty queue of fixed length.
xQueueCreate(uxQueueLength) == [uxLength |-> uxQueueLength, items |-> <<>>]

\* A mutant of QueueFull: the full test is off by one.
QueueFull_off_by_one(q) == Len(q.items) > q.uxLength

\* xQueueSend finds no room exactly when the queue holds uxLength items.
QueueFull(q) == Len(q.items) >= q.uxLength

\* xQueueReceive finds nothing exactly when the queue holds no item.
QueueEmpty(q) == Len(q.items) = 0

\* The queue after a successful xQueueSend: the item is copied to the back.
QueueSent(q, item) == [q EXCEPT !.items = Append(@, item)]

\* A mutant of QueueFront: the receiver is handed the newest item.
QueueFront_newest(q) == q.items[Len(q.items)]

\* The item a successful xQueueReceive copies out: the oldest one.
QueueFront(q) == Head(q.items)

\* The queue after a successful xQueueReceive: the oldest item is removed.
QueueReceived(q) == [q EXCEPT !.items = Tail(@)]

\* xSemaphoreCreateCounting(uxMaxCount, uxInitialCount)
xSemaphoreCreateCounting(uxMaxCount, uxInitialCount) ==
    [uxLength |-> uxMaxCount, uxMessagesWaiting |-> uxInitialCount, pxMutexHolder |-> "none"]

\* xSemaphoreCreateBinary(): a binary semaphore is created empty.
xSemaphoreCreateBinary ==
    [uxLength |-> 1, uxMessagesWaiting |-> 0, pxMutexHolder |-> "none"]

\* ------------------------------------------------------------------ state

VARIABLES
    \* 6-mutex-challenge
    mc_setup_pc,    \* position of setup() / loop() (the "setup and loop" task)
    mc_blink_pc,    \* position of blinkLED
    mc_mutex,       \* static SemaphoreHandle_t mutex
    mc_delay_arg,   \* contents of the stack slot of setup's local delay_arg
    mc_sent,        \* the value setup read and printed after "Sending: "
    mc_num,         \* blinkLED's local num (-1, no value it is given, before the copy)
    mc_led,         \* the LED pin level
    \* 6-mutex
    m6_setup_pc,    \* position of setup()
    m6_pc,          \* position of each incTask instance
    m6_mutex,       \* static SemaphoreHandle_t mutex
    m6_shared_var,  \* static int shared_var
    m6_local_var,   \* each incTask instance's local_var
    m6_stores,      \* number of executions of "shared_var = local_var" so far
    m6_printed,     \* the values printed by Serial.println(shared_var), in order
    \* 5-queue
    q5_loop_pc,     \* position of setup() / loop() (the "setup and loop" task)
    q5_print_pc,    \* position of printMessages
    q5_msg_queue,   \* static QueueHandle_t msg_queue
    q5_num,         \* loop's static int num
    q5_item,        \* printMessages' local item
    q5_result,      \* what loop's last xQueueSend returned
    q5_sent,        \* the values whose xQueueSend returned pdTRUE, in order
    q5_full,        \* the values whose xQueueSend failed ("Queue full"), in order
    q5_printed,     \* the values printed after "xQueueReceive: ", in order
    \* 5-queue-challenge
    qc_setup_pc,    \* position of setup()
    qc_cli_pc,      \* position of doCLI
    qc_blink_pc,    \* position of blinkLED
    qc_delay_queue, \* static QueueHandle_t delay_queue
    qc_msg_queue,   \* static QueueHandle_t msg_queue
    qc_serial,      \* the characters typed and not yet read by Serial.read()
    qc_lines_left,  \* how many more lines the user is going to type
    qc_blinks_left, \* how many more blinks of the LED are explored
    qc_buf,         \* doCLI's buf: the bytes stored since the last memset
    qc_idx,         \* doCLI's uint8_t idx
    qc_cli_delay,   \* doCLI's local led_delay
    qc_received,    \* doCLI's receive_message
    qc_led_delay,   \* blinkLED's local led_delay
    qc_counter,     \* blinkLED's uint8_t counter
    qc_msg,         \* blinkLED's local msg
    qc_half_period, \* the argument of blinkLED's latest vTaskDelay calls (0: none yet)
    \* 7-semaphore-counting
    sc_setup_pc,    \* position of setup() / loop() (the "setup and loop" task)
    sc_i,           \* setup's loop variable i
    sc_pc,          \* position of each myTask instance
    sc_sem_params,  \* static SemaphoreHandle_t sem_params
    sc_msg_input,   \* contents of the stack slot of setup's local msg_input
    sc_msg,         \* each myTask instance's local msg
    sc_given,       \* what each myTask instance's xSemaphoreGive returned
    \* 9-hardware-interrupts, main-demo-isr-critical-section
    cs_setup_pc,    \* position of setup()
    cs_task_pc,     \* position of printValues
    cs_timer,       \* whether the timer alarm may trigger onTimer
    cs_isr_counter, \* static volatile int isr_counter
    cs_spinlock,    \* static portMUX_TYPE spinlock: who holds it
    cs_reg,         \* the value printValues loaded for isr_counter--
    cs_fired,       \* number of runs of onTimer
    cs_decs,        \* number of isr_counter-- printValues has completed
    cs_printed,     \* the values printValues has printed
    \* 9-hardware-interrupts, main-demo-isr-semaphore
    is_setup_pc,    \* position of setup() / loop()
    is_task_pc,     \* position of printValues
    is_running,     \* the task the processor is executing
    is_timer,       \* whether the timer alarm may trigger onTimer
    is_val,         \* static volatile uint16_t val
    is_bin_sem,     \* static SemaphoreHandle_t bin_sem
    is_fired,       \* number of runs of onTimer
    is_loops,       \* number of calls of loop()
    is_printed,     \* the values printValues has printed
    \* 4-memory-management-challenge
    mm_setup_pc,    \* position of setup()
    mm_first_pc,    \* position of firstTask
    mm_second_pc,   \* position of secondTask
    mm_secondTaskHandle, \* TaskHandle_t secondTaskHandle
    mm_serial,      \* characters typed and not yet read
    mm_lines_left,  \* lines the user may still type
    mm_string_input, \* firstTask's string_input up to idx
    mm_idx,         \* firstTask's idx
    mm_string_send, \* firstTask's string_send (a heap block, 0 for NULL)
    mm_heap,        \* the heap blocks pvPortMalloc hands out
    mm_notified,    \* whether secondTask has a notification pending
    mm_value,       \* secondTask's notification value
    mm_received_string, \* secondTask's received_string (a heap block, 0 for NULL)
    mm_first_out,   \* the latest line firstTask printed
    mm_second_out,  \* the messages secondTask printed
    mm_abort,       \* why the program was aborted ("none" while it runs)
    \* 3-task-scheduling-challenge-led
    ts_setup_pc,    \* position of setup()
    ts_toggle_pc,   \* position of toggleLED
    ts_read_pc,     \* position of readSerial
    ts_led_delay,   \* static int led_delay
    ts_led,         \* the level of led_pin
    ts_high_period, \* the argument of toggleLED's latest vTaskDelay after HIGH (0: none yet)
    ts_low_period,  \* the argument of toggleLED's latest vTaskDelay after LOW (0: none yet)
    ts_serial,      \* characters typed and not yet read
    ts_lines_left,  \* lines the user may still type
    ts_buf,         \* readSerial's buf up to idx
    ts_idx,         \* readSerial's idx
    \* 7-semaphore-binary
    sb_setup_pc,    \* position of setup() / loop() (the "setup and loop" task)
    sb_blink_pc,    \* position of blinkLED
    sb_bin_sem,     \* static SemaphoreHandle_t bin_sem
    sb_delay_arg,   \* contents of the stack slot of setup's local delay_arg
    sb_sent,        \* the value setup read and printed after "Sending: "
    sb_num,         \* blinkLED's local num (-1, no value it is given, before the copy)
    sb_led          \* the LED pin level

mc_vars == <<mc_setup_pc, mc_blink_pc, mc_mutex, mc_delay_arg, mc_sent, mc_num, mc_led>>
m6_vars == <<m6_setup_pc, m6_pc, m6_mutex, m6_shared_var, m6_local_var, m6_stores, m6_printed>>
q5_vars == <<q5_loop_pc, q5_print_pc, q5_msg_queue, q5_num, q5_item, q5_result, q5_sent, q5_full, q5_printed>>
qc_vars == <<qc_setup_pc, qc_cli_pc, qc_blink_pc, qc_delay_queue, qc_msg_queue, qc_serial, qc_lines_left, qc_blinks_left,
             qc_buf, qc_idx, qc_cli_delay, qc_received, qc_led_delay, qc_counter, qc_msg,
             qc_half_period>>
sc_vars == <<sc_setup_pc, sc_i, sc_pc, sc_sem_params, sc_msg_input, sc_msg, sc_given>>

cs_vars == <<cs_setup_pc, cs_task_pc, cs_timer, cs_isr_counter, cs_spinlock, cs_reg,
             cs_fired, cs_decs, cs_printed>>
is_vars == <<is_setup_pc, is_task_pc, is_running, is_timer, is_val, is_bin_sem, is_fired,
             is_loops, is_printed>>

mm_vars == <<mm_setup_pc, mm_first_pc, mm_second_pc, mm_secondTaskHandle, mm_serial, mm_lines_left,
             mm_string_input, mm_idx, mm_string_send, mm_heap, mm_notified, mm_value,
             mm_received_string, mm_first_out, mm_second_out, mm_abort>>

ts_vars == <<ts_setup_pc, ts_toggle_pc, ts_read_pc, ts_led_delay, ts_led, ts_high_period,
             ts_low_period, ts_serial, ts_lines_left, ts_buf, ts_idx>>

sb_vars == <<sb_setup_pc, sb_blink_pc, sb_bin_sem, sb_delay_arg, sb_sent, sb_num, sb_led>>

vars == <<mc_vars, m6_vars, q5_vars, qc_vars, sc_vars, cs_vars, is_vars, mm_vars, ts_vars, sb_vars>>

\* What a step of one program leaves alone: the other programs.
mc_rest == <<m6_vars, q5_vars, qc_vars, sc_vars, cs_vars, is_vars, mm_vars, ts_vars, sb_vars>>
m6_rest == <<mc_vars, q5_vars, qc_vars, sc_vars, cs_vars, is_vars, mm_vars, ts_vars, sb_vars>>
q5_rest == <<mc_vars, m6_vars, qc_vars, sc_vars, cs_vars, is_vars, mm_vars, ts_vars, sb_vars>>
qc_rest == <<mc_vars, m6_vars, q5_vars, sc_vars, cs_vars, is_vars, mm_vars, ts_vars, sb_vars>>
sc_rest == <<mc_vars, m6_vars, q5_vars, qc_vars, cs_vars, is_vars, mm_vars, ts_vars, sb_vars>>
cs_rest == <<mc_vars, m6_vars, q5_vars, qc_vars, sc_vars, is_vars, mm_vars, ts_vars, sb_vars>>
is_rest == <<mc_vars, m6_vars, q5_vars, qc_vars, sc_vars, cs_vars, mm_vars, ts_vars, sb_vars>>
mm_rest == <<mc_vars, m6_vars, q5_vars, qc_vars, sc_vars, cs_vars, is_vars, ts_vars, sb_vars>>
ts_rest == <<mc_vars, m6_vars, q5_vars, qc_vars, sc_vars, cs_vars, is_vars, mm_vars, sb_vars>>
sb_rest == <<mc_vars, m6_vars, q5_vars, qc_vars, sc_vars, cs_vars, is_vars, mm_vars, ts_vars>>

\* ============================================================ 6-mutex-challenge

DelayArgs == 0..MaxDelayArg

MC_Off ==
    /\ mc_setup_pc = "off"
    /\ mc_blink_pc = "off"
    /\ mc_mutex = NULL
    /\ mc_delay_arg = 0
    /\ mc_sent = 0
    /\ mc_num = -1
    /\ mc_led = "LOW"

\* The program at reset: setup() is about to read the number; its local
\* delay_arg is uninitialised (any value).
MC_Init ==
    /\ mc_setup_pc = "read"
    /\ mc_blink_pc = "off"
    /\ mc_mutex = NULL
    /\ mc_delay_arg \in DelayArgs
    /\ mc_sent = 0
    /\ mc_num = -1
    /\ mc_led = "LOW"

\* setup: delay_arg = Serial.parseInt(); print "Sending: ".
MC_setup_read ==
    /\ mc_setup_pc = "read"
    /\ \E v \in DelayArgs :
        /\ mc_delay_arg' = v
        /\ mc_sent' = v
    /\ mc_setup_pc' = "create_mutex"
    /\ UNCHANGED <<mc_blink_pc, mc_mutex, mc_num, mc_led>>
    /\ UNCHANGED mc_rest

\* setup: mutex = xSemaphoreCreateMutex();
MC_setup_create_mutex ==
    /\ mc_setup_pc = "create_mutex"
    /\ mc_mutex' = xSemaphoreCreateMutex
    /\ mc_setup_pc' = "take1"
    /\ UNCHANGED <<mc_blink_pc, mc_delay_arg, mc_sent, mc_num, mc_led>>
    /\ UNCHANGED mc_rest

\* A mutant of MC_setup_take1: setup forgets to take the mutex before it
\* starts the task.
MC_setup_take1_skipped ==
    /\ mc_setup_pc = "take1"
    /\ mc_setup_pc' = "create_task"
    /\ UNCHANGED <<mc_blink_pc, mc_mutex, mc_delay_arg, mc_sent, mc_num, mc_led>>
    /\ UNCHANGED mc_rest

\* setup: xSemaphoreTake(mutex, portMAX_DELAY); (the first one)
MC_setup_take1 ==
    /\ mc_setup_pc = "take1"
    /\ SemAvailable(mc_mutex)
    /\ mc_mutex' = SemTaken(mc_mutex, "setup")
    /\ mc_setup_pc' = "create_task"
    /\ UNCHANGED <<mc_blink_pc, mc_delay_arg, mc_sent, mc_num, mc_led>>
    /\ UNCHANGED mc_rest

\* setup: xTaskCreatePinnedToCore(blinkLED, ..., (void *)&delay_arg, 1, ...)
MC_setup_create_task ==
    /\ mc_setup_pc = "create_task"
    /\ mc_blink_pc' = "copy"
    /\ mc_setup_pc' = "take2"
    /\ UNCHANGED <<mc_mutex, mc_delay_arg, mc_sent, mc_num, mc_led>>
    /\ UNCHANGED mc_rest

\* setup: xSemaphoreTake(mutex, portMAX_DELAY); (the second one): setup stays
\* blocked here until the mutex has a token again.
MC_setup_take2 ==
    /\ mc_setup_pc = "take2"
    /\ SemAvailable(mc_mutex)
    /\ mc_mutex' = SemTaken(mc_mutex, "setup")
    /\ mc_setup_pc' = "print_done"
    /\ UNCHANGED <<mc_blink_pc, mc_delay_arg, mc_sent, mc_num, mc_led>>
    /\ UNCHANGED mc_rest

\* setup: Serial.println("Done!"); and return: the stack frame is released.
MC_setup_return ==
    /\ mc_setup_pc = "print_done"
    /\ mc_setup_pc' = "loop"
    /\ UNCHANGED <<mc_blink_pc, mc_mutex, mc_delay_arg, mc_sent, mc_num, mc_led>>
    /\ UNCHANGED mc_rest

\* loop(): vTaskDelay(1000 / portTICK_PERIOD_MS); the calls made after setup
\* returned reuse its stack, so the slot that held delay_arg may now hold
\* anything.
MC_loop ==
    /\ mc_setup_pc = "loop"
    /\ \E v \in DelayArgs : mc_delay_arg' = v
    /\ UNCHANGED <<mc_setup_pc, mc_blink_pc, mc_mutex, mc_sent, mc_num, mc_led>>
    /\ UNCHANGED mc_rest

\* blinkLED: int num = *(int *)parameters;  (reads whatever the slot holds)
MC_blink_copy ==
    /\ mc_blink_pc = "copy"
    /\ mc_num' = mc_delay_arg
    /\ mc_blink_pc' = "give"
    /\ UNCHANGED <<mc_setup_pc, mc_mutex, mc_delay_arg, mc_sent, mc_led>>
    /\ UNCHANGED mc_rest

\* A mutant of MC_blink_give: blinkLED goes on without giving the mutex.
MC_blink_give_skipped ==
    /\ mc_blink_pc = "give"
    /\ mc_blink_pc' = "print"
    /\ UNCHANGED <<mc_setup_pc, mc_mutex, mc_delay_arg, mc_sent, mc_num, mc_led>>
    /\ UNCHANGED mc_rest

\* blinkLED: xSemaphoreGive(mutex);
MC_blink_give ==
    /\ mc_blink_pc = "give"
    /\ mc_mutex' = SemGiven(mc_mutex)
    /\ mc_blink_pc' = "print"
    /\ UNCHANGED <<mc_setup_pc, mc_delay_arg, mc_sent, mc_num, mc_led>>
    /\ UNCHANGED mc_rest

\* blinkLED: Serial.print("Received: "); Serial.println(num); pinMode(...)
MC_blink_print ==
    /\ mc_blink_pc = "print"
    /\ mc_blink_pc' = "high"
    /\ UNCHANGED <<mc_setup_pc, mc_mutex, mc_delay_arg, mc_sent, mc_num, mc_led>>
    /\ UNCHANGED mc_rest

\* blinkLED: digitalWrite(led_pin, HIGH); vTaskDelay(num / portTICK_PERIOD_MS);
MC_blink_high ==
    /\ mc_blink_pc = "high"
    /\ mc_led' = "HIGH"
    /\ mc_blink_pc' = "low"
    /\ UNCHANGED <<mc_setup_pc, mc_mutex, mc_delay_arg, mc_sent, mc_num>>
    /\ UNCHANGED mc_rest

\* blinkLED: digitalWrite(led_pin, LOW); vTaskDelay(num / portTICK_PERIOD_MS);
MC_blink_low ==
    /\ mc_blink_pc = "low"
    /\ mc_led' = "LOW"
    /\ mc_blink_pc' = "high"
    /\ UNCHANGED <<mc_setup_pc, mc_mutex, mc_delay_arg, mc_sent, mc_num>>
    /\ UNCHANGED mc_rest

MC_Next ==
    \/ MC_setup_read
    \/ MC_setup_create_mutex
    \/ MC_setup_take1
    \/ MC_setup_create_task
    \/ MC_setup_take2
    \/ MC_setup_return
    \/ MC_loop
    \/ MC_blink_copy
    \/ MC_blink_give
    \/ MC_blink_print
    \/ MC_blink_high
    \/ MC_blink_low

\* ====================================================================== 6-mutex

\* The two instances of incTask ("Increment Task 1", "Increment Task 2").
IncTasks == {1, 2}

M6_Off ==
    /\ m6_setup_pc = "off"
    /\ m6_pc = [i \in IncTasks |-> "off"]
    /\ m6_mutex = NULL
    /\ m6_shared_var = 0
    /\ m6_local_var = [i \in IncTasks |-> 0]
    /\ m6_stores = 0
    /\ m6_printed = <<>>

\* The program at reset: static int shared_var = 0; no task exists yet.
M6_Init ==
    /\ m6_setup_pc = "create_mutex"
    /\ m6_pc = [i \in IncTasks |-> "off"]
    /\ m6_mutex = NULL
    /\ m6_shared_var = 0
    /\ m6_local_var = [i \in IncTasks |-> 0]
    /\ m6_stores = 0
    /\ m6_printed = <<>>

\* setup: mutex = xSemaphoreCreateMutex();
M6_setup_create_mutex ==
    /\ m6_setup_pc = "create_mutex"
    /\ m6_mutex' = xSemaphoreCreateMutex
    /\ m6_setup_pc' = "create_task_1"
    /\ UNCHANGED <<m6_pc, m6_shared_var, m6_local_var, m6_stores, m6_printed>>
    /\ UNCHANGED m6_rest

\* setup: xTaskCreatePinnedToCore(incTask, "Increment Task 1", ...)
M6_setup_create_task_1 ==
    /\ m6_setup_pc = "create_task_1"
    /\ m6_pc' = [m6_pc EXCEPT ![1] = "take"]
    /\ m6_setup_pc' = "create_task_2"
    /\ UNCHANGED <<m6_mutex, m6_shared_var, m6_local_var, m6_stores, m6_printed>>
    /\ UNCHANGED m6_rest

\* setup: xTaskCreatePinnedToCore(incTask, "Increment Task 2", ...)
M6_setup_create_task_2 ==
    /\ m6_setup_pc = "create_task_2"
    /\ m6_pc' = [m6_pc EXCEPT ![2] = "take"]
    /\ m6_setup_pc' = "delete"
    /\ UNCHANGED <<m6_mutex, m6_shared_var, m6_local_var, m6_stores, m6_printed>>
    /\ UNCHANGED m6_rest

\* setup: vTaskDelete(NULL);
M6_setup_delete ==
    /\ m6_setup_pc = "delete"
    /\ m6_setup_pc' = "deleted"
    /\ UNCHANGED <<m6_pc, m6_mutex, m6_shared_var, m6_local_var, m6_stores, m6_printed>>
    /\ UNCHANGED m6_rest

\* A mutant of M6_take: the task enters the critical section without
\* looking at the result of xSemaphoreTake.
M6_take_unchecked(i) ==
    /\ m6_pc[i] = "take"
    /\ m6_shared_var < MaxSharedVar
    /\ m6_mutex' = IF SemAvailable(m6_mutex) THEN SemTaken(m6_mutex, i) ELSE m6_mutex
    /\ m6_pc' = [m6_pc EXCEPT ![i] = "read"]
    /\ UNCHANGED <<m6_setup_pc, m6_shared_var, m6_local_var, m6_stores, m6_printed>>
    /\ UNCHANGED m6_rest

\* incTask: xSemaphoreTake(mutex, 0) == pdTRUE
M6_take(i) ==
    /\ m6_pc[i] = "take"
    /\ m6_shared_var < MaxSharedVar
    /\ SemAvailable(m6_mutex)
    /\ m6_mutex' = SemTaken(m6_mutex, i)
    /\ m6_pc' = [m6_pc EXCEPT ![i] = "read"]
    /\ UNCHANGED <<m6_setup_pc, m6_shared_var, m6_local_var, m6_stores, m6_printed>>
    /\ UNCHANGED m6_rest

\* incTask: xSemaphoreTake(mutex, 0) != pdTRUE: the else branch does nothing
\* and the loop tries again.
M6_take_fail(i) ==
    /\ m6_pc[i] = "take"
    /\ ~SemAvailable(m6_mutex)
    /\ UNCHANGED <<m6_setup_pc, m6_pc, m6_mutex, m6_shared_var, m6_local_var, m6_stores, m6_printed>>
    /\ UNCHANGED m6_rest

\* incTask: local_var = shared_var;
M6_read(i) ==
    /\ m6_pc[i] = "read"
    /\ m6_local_var' = [m6_local_var EXCEPT ![i] = m6_shared_var]
    /\ m6_pc' = [m6_pc EXCEPT ![i] = "inc"]
    /\ UNCHANGED <<m6_setup_pc, m6_mutex, m6_shared_var, m6_stores, m6_printed>>
    /\ UNCHANGED m6_rest

\* incTask: local_var++;
M6_inc(i) ==
    /\ m6_pc[i] = "inc"
    /\ m6_local_var' = [m6_local_var EXCEPT ![i] = @ + 1]
    /\ m6_pc' = [m6_pc EXCEPT ![i] = "delay"]
    /\ UNCHANGED <<m6_setup_pc, m6_mutex, m6_shared_var, m6_stores, m6_printed>>
    /\ UNCHANGED m6_rest

\* incTask: vTaskDelay(random(100, 500) / portTICK_PERIOD_MS); the task is
\* suspended while it holds the mutex.
M6_delay(i) ==
    /\ m6_pc[i] = "delay"
    /\ m6_pc' = [m6_pc EXCEPT ![i] = "write"]
    /\ UNCHANGED <<m6_setup_pc, m6_mutex, m6_shared_var, m6_local_var, m6_stores, m6_printed>>
    /\ UNCHANGED m6_rest

\* incTask: shared_var = local_var;
M6_write(i) ==
    /\ m6_pc[i] = "write"
    /\ m6_shared_var' = m6_local_var[i]
    /\ m6_stores' = m6_stores + 1
    /\ m6_pc' = [m6_pc EXCEPT ![i] = "print"]
    /\ UNCHANGED <<m6_setup_pc, m6_mutex, m6_local_var, m6_printed>>
    /\ UNCHANGED m6_rest

\* incTask: Serial.println(shared_var);
M6_print(i) ==
    /\ m6_pc[i] = "print"
    /\ m6_printed' = Append(m6_printed, m6_shared_var)
    /\ m6_pc' = [m6_pc EXCEPT ![i] = "give"]
    /\ UNCHANGED <<m6_setup_pc, m6_mutex, m6_shared_var, m6_local_var, m6_stores>>
    /\ UNCHANGED m6_rest

\* A mutant of M6_give: the task goes round its loop without giving the
\* mutex back.
M6_give_forgotten(i) ==
    /\ m6_pc[i] = "give"
    /\ m6_pc' = [m6_pc EXCEPT ![i] = "take"]
    /\ UNCHANGED <<m6_setup_pc, m6_mutex, m6_shared_var, m6_local_var, m6_stores, m6_printed>>
    /\ UNCHANGED m6_rest

\* incTask: xSemaphoreGive(mutex);
M6_give(i) ==
    /\ m6_pc[i] = "give"
    /\ m6_mutex' = SemGiven(m6_mutex)
    /\ m6_pc' = [m6_pc EXCEPT ![i] = "take"]
    /\ UNCHANGED <<m6_setup_pc, m6_shared_var, m6_local_var, m6_stores, m6_printed>>
    /\ UNCHANGED m6_rest

M6_Next ==
    \/ M6_setup_create_mutex
    \/ M6_setup_create_task_1
    \/ M6_setup_create_task_2
    \/ M6_setup_delete
    \/ \E i \in IncTasks :
        \/ M6_take(i)
        \/ M6_take_fail(i)
        \/ M6_read(i)
        \/ M6_inc(i)
        \/ M6_delay(i)
        \/ M6_write(i)
        \/ M6_print(i)
        \/ M6_give(i)

\* The mutex demo without end: shared_var and local_var are ints that wrap
\* around (here modulo MaxSharedVar + 1 instead of 2^32), and what was
\* stored and printed so far is not recorded.

\* incTask: xSemaphoreTake(mutex, 0) == pdTRUE, at any value of shared_var
M6_take_unbounded(i) ==
    /\ m6_pc[i] = "take"
    /\ SemAvailable(m6_mutex)
    /\ m6_mutex' = SemTaken(m6_mutex, i)
    /\ m6_pc' = [m6_pc EXCEPT ![i] = "read"]
    /\ UNCHANGED <<m6_setup_pc, m6_shared_var, m6_local_var, m6_stores, m6_printed>>
    /\ UNCHANGED m6_rest

\* incTask: local_var++; with wrap-around
M6_inc_wrapping(i) ==
    /\ m6_pc[i] = "inc"
    /\ m6_local_var' = [m6_local_var EXCEPT ![i] = (@ + 1) % (MaxSharedVar + 1)]
    /\ m6_pc' = [m6_pc EXCEPT ![i] = "delay"]
    /\ UNCHANGED <<m6_setup_pc, m6_mutex, m6_shared_var, m6_stores, m6_printed>>
    /\ UNCHANGED m6_rest

\* incTask: shared_var = local_var; the store is not counted
M6_write_uncounted(i) ==
    /\ m6_pc[i] = "write"
    /\ m6_shared_var' = m6_local_var[i]
    /\ m6_pc' = [m6_pc EXCEPT ![i] = "print"]
    /\ UNCHANGED <<m6_setup_pc, m6_mutex, m6_local_var, m6_stores, m6_printed>>
    /\ UNCHANGED m6_rest

\* incTask: Serial.println(shared_var); the output is not recorded
M6_print_unrecorded(i) ==
    /\ m6_pc[i] = "print"
    /\ m6_pc' = [m6_pc EXCEPT ![i] = "give"]
    /\ UNCHANGED <<m6_setup_pc, m6_mutex, m6_shared_var, m6_local_var, m6_stores, m6_printed>>
    /\ UNCHANGED m6_rest

\* The steps of one incTask in the mutex demo without end.  A failed
\* xSemaphoreTake changes nothing: the task is scheduled, polls, and is where
\* it was.
M6_Task(i) ==
    \/ M6_take_unbounded(i)
    \/ M6_take_fail(i)
    \/ M6_read(i)
    \/ M6_inc_wrapping(i)
    \/ M6_delay(i)
    \/ M6_write_uncounted(i)
    \/ M6_print_unrecorded(i)
    \/ M6_give(i)

M6_Setup ==
    \/ M6_setup_create_mutex
    \/ M6_setup_create_task_1
    \/ M6_setup_create_task_2
    \/ M6_setup_delete

M6_Unbounded_Next ==
    \/ M6_Setup
    \/ \E i \in IncTasks : M6_Task(i)

\* The incTask instances that are between a successful xSemaphoreTake and the
\* matching xSemaphoreGive.
M6_InCritical == {i \in IncTasks : m6_pc[i] \in {"read", "inc", "delay", "write", "print", "give"}}

\* ====================================================================== 5-queue

\* static const uint8_t msg_queue_len = 5;
q5_msg_queue_len == 5

Q5_Off ==
    /\ q5_loop_pc = "off"
    /\ q5_print_pc = "off"
    /\ q5_msg_queue = NullQueue
    /\ q5_num = 0
    /\ q5_item = 0
    /\ q5_result = "none"
    /\ q5_sent = <<>>
    /\ q5_full = <<>>
    /\ q5_printed = <<>>

\* The program at reset: static int num = 0; no queue, no task.
Q5_Init ==
    /\ q5_loop_pc = "create_queue"
    /\ q5_print_pc = "off"
    /\ q5_msg_queue = NullQueue
    /\ q5_num = 0
    /\ q5_item = 0
    /\ q5_result = "none"
    /\ q5_sent = <<>>
    /\ q5_full = <<>>
    /\ q5_printed = <<>>

\* setup: msg_queue = xQueueCreate(msg_queue_len, sizeof(int));
Q5_setup_create_queue ==
    /\ q5_loop_pc = "create_queue"
    /\ q5_msg_queue' = xQueueCreate(q5_msg_queue_len)
    /\ q5_loop_pc' = "create_task"
    /\ UNCHANGED <<q5_print_pc, q5_num, q5_item, q5_result, q5_sent, q5_full, q5_printed>>
    /\ UNCHANGED q5_rest

\* setup: xTaskCreatePinnedToCore(printMessages, ...); setup returns and the
\* task goes on to call loop().
Q5_setup_create_task ==
    /\ q5_loop_pc = "create_task"
    /\ q5_print_pc' = "receive"
    /\ q5_loop_pc' = "send"
    /\ UNCHANGED <<q5_msg_queue, q5_num, q5_item, q5_result, q5_sent, q5_full, q5_printed>>
    /\ UNCHANGED q5_rest

\* loop: xQueueSend(msg_queue, (void*)&num, 10) finds room: num is copied to
\* the back of the queue and the call returns pdTRUE.
Q5_loop_send ==
    /\ q5_loop_pc = "send"
    /\ q5_num < MaxNum
    /\ ~QueueFull(q5_msg_queue)
    /\ q5_msg_queue' = QueueSent(q5_msg_queue, q5_num)
    /\ q5_result' = "pdTRUE"
    /\ q5_sent' = Append(q5_sent, q5_num)
    /\ q5_loop_pc' = "inc"
    /\ UNCHANGED <<q5_print_pc, q5_num, q5_item, q5_full, q5_printed>>
    /\ UNCHANGED q5_rest

\* loop: xQueueSend finds the queue full: the task blocks for up to 10 ticks.
Q5_loop_send_block ==
    /\ q5_loop_pc = "send"
    /\ q5_num < MaxNum
    /\ QueueFull(q5_msg_queue)
    /\ q5_loop_pc' = "send_blocked"
    /\ UNCHANGED <<q5_print_pc, q5_msg_queue, q5_num, q5_item, q5_result, q5_sent, q5_full, q5_printed>>
    /\ UNCHANGED q5_rest

\* A mutant of Q5_loop_send_wake: the woken send puts its item at the front
\* of the queue.
Q5_loop_send_wake_front ==
    /\ q5_loop_pc = "send_blocked"
    /\ ~QueueFull(q5_msg_queue)
    /\ q5_msg_queue' = [q5_msg_queue EXCEPT !.items = <<q5_num>> \o @]
    /\ q5_result' = "pdTRUE"
    /\ q5_sent' = Append(q5_sent, q5_num)
    /\ q5_loop_pc' = "inc"
    /\ UNCHANGED <<q5_print_pc, q5_num, q5_item, q5_full, q5_printed>>
    /\ UNCHANGED q5_rest

\* loop: room opened within the 10 ticks: the blocked xQueueSend completes.
Q5_loop_send_wake ==
    /\ q5_loop_pc = "send_blocked"
    /\ ~QueueFull(q5_msg_queue)
    /\ q5_msg_queue' = QueueSent(q5_msg_queue, q5_num)
    /\ q5_result' = "pdTRUE"
    /\ q5_sent' = Append(q5_sent, q5_num)
    /\ q5_loop_pc' = "inc"
    /\ UNCHANGED <<q5_print_pc, q5_num, q5_item, q5_full, q5_printed>>
    /\ UNCHANGED q5_rest

\* A mutant of Q5_loop_send_timeout: the send that timed out overwrites the
\* newest item of the full queue with its own.
Q5_loop_send_timeout_overwrites ==
    /\ q5_loop_pc = "send_blocked"
    /\ QueueFull(q5_msg_queue)
    /\ q5_msg_queue' = [q5_msg_queue EXCEPT !.items = Append(SubSeq(@, 1, Len(@) - 1), q5_num)]
    /\ q5_result' = "errQUEUE_FULL"
    /\ q5_full' = Append(q5_full, q5_num)
    /\ q5_loop_pc' = "inc"
    /\ UNCHANGED <<q5_print_pc, q5_num, q5_item, q5_sent, q5_printed>>
    /\ UNCHANGED q5_rest

\* A mutant of Q5_loop_send_timeout: the send gives up without a last look
\* at the queue.
Q5_loop_send_timeout_unchecked ==
    /\ q5_loop_pc = "send_blocked"
    /\ q5_result' = "errQUEUE_FULL"
    /\ q5_full' = Append(q5_full, q5_num)
    /\ q5_loop_pc' = "inc"
    /\ UNCHANGED <<q5_print_pc, q5_msg_queue, q5_num, q5_item, q5_sent, q5_printed>>
    /\ UNCHANGED q5_rest

\* loop: the 10 ticks elapsed with the queue still full: xQueueSend returns
\* errQUEUE_FULL and loop prints "Queue full".
Q5_loop_send_timeout ==
    /\ q5_loop_pc = "send_blocked"
    /\ QueueFull(q5_msg_queue)
    /\ q5_result' = "errQUEUE_FULL"
    /\ q5_full' = Append(q5_full, q5_num)
    /\ q5_loop_pc' = "inc"
    /\ UNCHANGED <<q5_print_pc, q5_msg_queue, q5_num, q5_item, q5_sent, q5_printed>>
    /\ UNCHANGED q5_rest

\* A mutant of Q5_loop_inc: num is incremented only after a send that
\* succeeded, so a rejected value is sent again.
Q5_loop_inc_on_success ==
    /\ q5_loop_pc = "inc"
    /\ q5_num' = IF q5_result = "pdTRUE" THEN q5_num + 1 ELSE q5_num
    /\ q5_loop_pc' = "delay"
    /\ UNCHANGED <<q5_print_pc, q5_msg_queue, q5_item, q5_result, q5_sent, q5_full, q5_printed>>
    /\ UNCHANGED q5_rest

\* loop: num++;
Q5_loop_inc ==
    /\ q5_loop_pc = "inc"
    /\ q5_num' = q5_num + 1
    /\ q5_loop_pc' = "delay"
    /\ UNCHANGED <<q5_print_pc, q5_msg_queue, q5_item, q5_result, q5_sent, q5_full, q5_printed>>
    /\ UNCHANGED q5_rest

\* loop: vTaskDelay(1000 / portTICK_PERIOD_MS); return; loop() is called again.
Q5_loop_delay ==
    /\ q5_loop_pc = "delay"
    /\ q5_loop_pc' = "send"
    /\ UNCHANGED <<q5_print_pc, q5_msg_queue, q5_num, q5_item, q5_result, q5_sent, q5_full, q5_printed>>
    /\ UNCHANGED q5_rest

\* printMessages: xQueueReceive(msg_queue, (void *)&item, 0) == pdTRUE: the
\* oldest item is copied to item, removed, and printed.
Q5_print_receive ==
    /\ q5_print_pc = "receive"
    /\ ~QueueEmpty(q5_msg_queue)
    /\ q5_item' = QueueFront(q5_msg_queue)
    /\ q5_msg_queue' = QueueReceived(q5_msg_queue)
    /\ q5_printed' = Append(q5_printed, QueueFront(q5_msg_queue))
    /\ q5_print_pc' = "delay"
    /\ UNCHANGED <<q5_loop_pc, q5_num, q5_result, q5_sent, q5_full>>
    /\ UNCHANGED q5_rest

\* printMessages: the queue is empty: xQueueReceive returns at once, nothing
\* is printed.
Q5_print_receive_empty ==
    /\ q5_print_pc = "receive"
    /\ QueueEmpty(q5_msg_queue)
    /\ q5_print_pc' = "delay"
    /\ UNCHANGED <<q5_loop_pc, q5_msg_queue, q5_num, q5_item, q5_result, q5_sent, q5_full, q5_printed>>
    /\ UNCHANGED q5_rest

\* printMessages: vTaskDelay(500 / portTICK_RATE_MS);
Q5_print_delay ==
    /\ q5_print_pc = "delay"
    /\ q5_print_pc' = "receive"
    /\ UNCHANGED <<q5_loop_pc, q5_msg_queue, q5_num, q5_item, q5_result, q5_sent, q5_full, q5_printed>>
    /\ UNCHANGED q5_rest

Q5_Next ==
    \/ Q5_setup_create_queue
    \/ Q5_setup_create_task
    \/ Q5_loop_send
    \/ Q5_loop_send_block
    \/ Q5_loop_send_wake
    \/ Q5_loop_send_timeout
    \/ Q5_loop_inc
    \/ Q5_loop_delay
    \/ Q5_print_receive
    \/ Q5_print_receive_empty
    \/ Q5_print_delay

\* ============================================================ 5-queue-challenge

\* static const uint8_t buf_len = 255;
buf_len == 255

\* static const char command[] = "delay ";
command == <<"d", "e", "l", "a", "y", " ">>

\* uint8_t cmd_len = strlen(command);
cmd_len == Len(command)

\* static const int delay_queue_len = 5;
delay_queue_len == 5

\* static const int msg_queue_len = 5;
msg_queue_len == 5

\* static const uint8_t blink_max = 100;
blink_max == 100

\* The lines a user types, each ended by '\n' or '\r'.
Lines == {
    <<"d", "e", "l", "a", "y", " ", "7", "\n">>,
    <<"x", "\r">> }

\* The value of a decimal digit, -1 for any other character.
DigitValue(ch) ==
    CASE ch = "0" -> 0 [] ch = "1" -> 1 [] ch = "2" -> 2 [] ch = "3" -> 3 [] ch = "4" -> 4
      [] ch = "5" -> 5 [] ch = "6" -> 6 [] ch = "7" -> 7 [] ch = "8" -> 8 [] ch = "9" -> 9
      [] OTHER -> -1

\* isspace() in the "C" locale.
IsSpace(ch) == ch \in {" ", "\t", "\n", "\r", "\f"}

\* The largest and the smallest value of a 32-bit int (and long).
INT_MAX == 2147483647
INT_MIN == -INT_MAX - 1

\* The negated value of the longest run of digits at the start of str, after
\* acc (<= 0), stopping at INT_MIN: strtol accumulates with saturation.
RECURSIVE NegDigits(_, _)
NegDigits(str, acc) ==
    IF str = <<>> \/ DigitValue(Head(str)) < 0
    THEN acc
    ELSE IF acc < -214748364 \/ (acc = -214748364 /\ DigitValue(Head(str)) > 8)
         THEN INT_MIN
         ELSE NegDigits(Tail(str), 10 * acc - DigitValue(Head(str)))

\* atoi(): leading white space is skipped, then an optional sign, then the
\* digits up to the first character that is not one; 0 when there are none.
\* The result is clamped to the range of a 32-bit long, as strtol does.
RECURSIVE atoi(_)
atoi(str) ==
    IF str = <<>> THEN 0
    ELSE IF IsSpace(Head(str)) THEN atoi(Tail(str))
    ELSE LET neg == Head(str) = "-"
             rest == IF Head(str) \in {"-", "+"} THEN Tail(str) ELSE str
             n == NegDigits(rest, 0)
         IN  IF neg THEN n
             ELSE IF n = INT_MIN THEN INT_MAX ELSE -n

\* abs() of a 32-bit int; the negation of the most negative int wraps to
\* itself.
abs(n) == IF n = INT_MIN THEN n ELSE IF n < 0 THEN -n ELSE n

\* A mutant of IsCommand: only "delay" is compared, not the space after it.
IsCommand_no_space(buf) == Len(buf) >= cmd_len - 1 /\ SubSeq(buf, 1, cmd_len - 1) = SubSeq(command, 1, cmd_len - 1)

\* memcmp(buf, command, cmd_len) == 0; the bytes of buf past idx are 0.
IsCommand(buf) == Len(buf) >= cmd_len /\ SubSeq(buf, 1, cmd_len) = command

\* A mutant of CommandTail: the tail starts one character too far.
CommandTail_one_too_far(buf) == SubSeq(buf, cmd_len + 2, Len(buf))

\* char* tail = buf + cmd_len;
CommandTail(buf) == SubSeq(buf, cmd_len + 1, Len(buf))

\* A Message whose body and count were never written.
NoMessage == [body |-> "", count |-> 0]

QC_Off ==
    /\ qc_setup_pc = "off"
    /\ qc_cli_pc = "off"
    /\ qc_blink_pc = "off"
    /\ qc_delay_queue = NullQueue
    /\ qc_msg_queue = NullQueue
    /\ qc_serial = <<>>
    /\ qc_lines_left = 0
    /\ qc_blinks_left = 0
    /\ qc_buf = <<>>
    /\ qc_idx = 0
    /\ qc_cli_delay = 0
    /\ qc_received = NoMessage
    /\ qc_led_delay = 500
    /\ qc_counter = 0
    /\ qc_msg = NoMessage
    /\ qc_half_period = 0

\* The program at reset: no queue, no task, nothing typed.
QC_Init ==
    /\ qc_setup_pc = "create_delay_queue"
    /\ qc_cli_pc = "off"
    /\ qc_blink_pc = "off"
    /\ qc_delay_queue = NullQueue
    /\ qc_msg_queue = NullQueue
    /\ qc_serial = <<>>
    /\ qc_lines_left = MaxLines
    /\ qc_blinks_left = MaxBlinks
    /\ qc_buf = <<>>
    /\ qc_idx = 0
    /\ qc_cli_delay = 0
    /\ qc_received = NoMessage
    /\ qc_led_delay = 500
    /\ qc_counter = 0
    /\ qc_msg = NoMessage
    /\ qc_half_period = 0

\* The program after setup has finished and blinkLED has blinked
\* blink_max - MaxBlinks times while nothing was typed: both tasks are at the
\* top of their loops and both queues are empty.
QC_InitBlinked ==
    /\ qc_setup_pc = "deleted"
    /\ qc_cli_pc = "receive"
    /\ qc_blink_pc = "receive"
    /\ qc_delay_queue = xQueueCreate(delay_queue_len)
    /\ qc_msg_queue = xQueueCreate(msg_queue_len)
    /\ qc_serial = <<>>
    /\ qc_lines_left = MaxLines
    /\ qc_blinks_left = MaxBlinks
    /\ qc_buf = <<>>
    /\ qc_idx = 0
    /\ qc_cli_delay = 0
    /\ qc_received = NoMessage
    /\ qc_led_delay = 500
    /\ qc_counter = blink_max - MaxBlinks
    /\ qc_msg = NoMessage
    /\ qc_half_period = 500

\* Texts a user may type after "delay ", each with the integer it denotes.
CommandTexts == {
    [text |-> <<"0">>, n |-> 0],
    [text |-> <<"7">>, n |-> 7],
    [text |-> <<"2", "5", "0">>, n |-> 250],
    [text |-> <<"2", "1", "4", "7", "4", "8", "3", "6", "4", "7">>, n |-> INT_MAX],
    [text |-> <<"-", "5">>, n |-> -5],
    [text |-> <<"-", "2", "5", "0">>, n |-> -250],
    [text |-> <<"-", "2", "1", "4", "7", "4", "8", "3", "6", "4", "7">>, n |-> -INT_MAX],
    [text |-> <<"-", "2", "1", "4", "7", "4", "8", "3", "6", "4", "8">>, n |-> INT_MIN] }

\* The command lines made of them: "delay <n>" ended by '\n' or '\r'.
CommandLines ==
    { command \o c.text \o <<t>> : c \in CommandTexts, t \in {"\n", "\r"} }

\* The program after setup has finished, with one command line typed and
\* waiting in the serial receive buffer: both tasks are at the top of their
\* loops and both queues are empty.
QC_InitCommand ==
    /\ qc_setup_pc = "deleted"
    /\ qc_cli_pc = "receive"
    /\ qc_blink_pc = "receive"
    /\ qc_delay_queue = xQueueCreate(delay_queue_len)
    /\ qc_msg_queue = xQueueCreate(msg_queue_len)
    /\ qc_serial \in CommandLines
    /\ qc_lines_left = 1
    /\ qc_blinks_left = 2
    /\ qc_buf = <<>>
    /\ qc_idx = 0
    /\ qc_cli_delay = 0
    /\ qc_received = NoMessage
    /\ qc_led_delay = 500
    /\ qc_counter = 0
    /\ qc_msg = NoMessage
    /\ qc_half_period = 0

\* What a user may have typed: lines that start with "delay ", lines that
\* nearly do, two lines in a row, and a line longer than buf.
TypedLines == {
    <<"d", "e", "l", "a", "y", " ", "4", "2", "\n">>,
    <<"d", "e", "l", "a", "y", " ", "\n">>,
    <<"d", "e", "l", "a", "y", " ", "x", "\r">>,
    <<"d", "e", "l", "a", "y", "\n">>,
    <<"d", "e", "l", "a", "y", "4", "2", "\n">>,
    <<"D", "e", "l", "a", "y", " ", "4", "2", "\n">>,
    <<" ", "d", "e", "l", "a", "y", " ", "4", "2", "\n">>,
    <<"d", "e", "l", "a", "\r">>,
    <<"\n">>,
    <<"d", "e", "l", "a", "y", "\r", "d", "e", "l", "a", "y", " ", "4", "3", "\n">>,
    <<"d", "e", "l", "a", "y", " ", "4", "4", "\r", "\n">>,
    command \o [k \in 1..(buf_len - cmd_len) |-> "1"] \o <<"\n">> }

\* The program after setup has finished, with one of these waiting in the
\* serial receive buffer.
QC_InitTyped ==
    /\ qc_setup_pc = "deleted"
    /\ qc_cli_pc = "receive"
    /\ qc_blink_pc = "receive"
    /\ qc_delay_queue = xQueueCreate(delay_queue_len)
    /\ qc_msg_queue = xQueueCreate(msg_queue_len)
    /\ qc_serial \in TypedLines
    /\ qc_lines_left = 1
    /\ qc_blinks_left = 2
    /\ qc_buf = <<>>
    /\ qc_idx = 0
    /\ qc_cli_delay = 0
    /\ qc_received = NoMessage
    /\ qc_led_delay = 500
    /\ qc_counter = 0
    /\ qc_msg = NoMessage
    /\ qc_half_period = 0

\* setup: delay_queue = xQueueCreate(delay_queue_len, sizeof(int));
QC_setup_create_delay_queue ==
    /\ qc_setup_pc = "create_delay_queue"
    /\ qc_delay_queue' = xQueueCreate(delay_queue_len)
    /\ qc_setup_pc' = "create_msg_queue"
    /\ UNCHANGED <<qc_cli_pc, qc_blink_pc, qc_msg_queue, qc_serial, qc_lines_left, qc_blinks_left, qc_buf, qc_idx,
                   qc_cli_delay, qc_received, qc_led_delay, qc_counter, qc_msg, qc_half_period>>
    /\ UNCHANGED qc_rest

\* setup: msg_queue = xQueueCreate(msg_queue_len, sizeof(Message));
QC_setup_create_msg_queue ==
    /\ qc_setup_pc = "create_msg_queue"
    /\ qc_msg_queue' = xQueueCreate(msg_queue_len)
    /\ qc_setup_pc' = "create_cli"
    /\ UNCHANGED <<qc_cli_pc, qc_blink_pc, qc_delay_queue, qc_serial, qc_lines_left, qc_blinks_left, qc_buf, qc_idx,
                   qc_cli_delay, qc_received, qc_led_delay, qc_counter, qc_msg, qc_half_period>>
    /\ UNCHANGED qc_rest

\* setup: xTaskCreatePinnedToCore(doCLI, "CLI", ...); doCLI starts with
\* idx = 0 and buf cleared.
QC_setup_create_cli ==
    /\ qc_setup_pc = "create_cli"
    /\ qc_cli_pc' = "receive"
    /\ qc_setup_pc' = "create_blink"
    /\ UNCHANGED <<qc_blink_pc, qc_delay_queue, qc_msg_queue, qc_serial, qc_lines_left, qc_blinks_left, qc_buf, qc_idx,
                   qc_cli_delay, qc_received, qc_led_delay, qc_counter, qc_msg, qc_half_period>>
    /\ UNCHANGED qc_rest

\* setup: xTaskCreatePinnedToCore(blinkLED, "Blink LED", ...); blinkLED starts
\* with led_delay = 500 and counter = 0.
QC_setup_create_blink ==
    /\ qc_setup_pc = "create_blink"
    /\ qc_blink_pc' = "receive"
    /\ qc_setup_pc' = "delete"
    /\ UNCHANGED <<qc_cli_pc, qc_delay_queue, qc_msg_queue, qc_serial, qc_lines_left, qc_blinks_left, qc_buf, qc_idx,
                   qc_cli_delay, qc_received, qc_led_delay, qc_counter, qc_msg, qc_half_period>>
    /\ UNCHANGED qc_rest

\* setup: vTaskDelete(NULL);
QC_setup_delete ==
    /\ qc_setup_pc = "delete"
    /\ qc_setup_pc' = "deleted"
    /\ UNCHANGED <<qc_cli_pc, qc_blink_pc, qc_delay_queue, qc_msg_queue, qc_serial, qc_lines_left, qc_blinks_left, qc_buf,
                   qc_idx, qc_cli_delay, qc_received, qc_led_delay, qc_counter, qc_msg, qc_half_period>>
    /\ UNCHANGED qc_rest

\* The user types one more line on the serial terminal.
QC_type_line ==
    /\ qc_serial = <<>>
    /\ qc_lines_left > 0
    /\ \E line \in Lines : qc_serial' = line
    /\ qc_lines_left' = qc_lines_left - 1
    /\ UNCHANGED <<qc_setup_pc, qc_cli_pc, qc_blink_pc, qc_delay_queue, qc_msg_queue, qc_blinks_left, qc_buf, qc_idx,
                   qc_cli_delay, qc_received, qc_led_delay, qc_counter, qc_msg, qc_half_period>>
    /\ UNCHANGED qc_rest

\* doCLI: xQueueReceive(msg_queue, (void *)&receive_message, 0) == pdTRUE:
\* the message is copied out and printed.
QC_cli_receive ==
    /\ qc_cli_pc = "receive"
    /\ ~QueueEmpty(qc_msg_queue)
    /\ qc_received' = QueueFront(qc_msg_queue)
    /\ qc_msg_queue' = QueueReceived(qc_msg_queue)
    /\ qc_cli_pc' = "serial"
    /\ UNCHANGED <<qc_setup_pc, qc_blink_pc, qc_delay_queue, qc_serial, qc_lines_left, qc_blinks_left, qc_buf, qc_idx,
                   qc_cli_delay, qc_led_delay, qc_counter, qc_msg, qc_half_period>>
    /\ UNCHANGED qc_rest

\* doCLI: msg_queue is empty: xQueueReceive returns at once.
QC_cli_receive_empty ==
    /\ qc_cli_pc = "receive"
    /\ QueueEmpty(qc_msg_queue)
    /\ qc_cli_pc' = "serial"
    /\ UNCHANGED <<qc_setup_pc, qc_blink_pc, qc_delay_queue, qc_msg_queue, qc_serial, qc_lines_left, qc_blinks_left, qc_buf,
                   qc_idx, qc_cli_delay, qc_received, qc_led_delay, qc_counter, qc_msg, qc_half_period>>
    /\ UNCHANGED qc_rest

\* doCLI: Serial.available() > 0 is false: next iteration.
QC_cli_no_input ==
    /\ qc_cli_pc = "serial"
    /\ qc_serial = <<>>
    /\ qc_cli_pc' = "receive"
    /\ UNCHANGED <<qc_setup_pc, qc_blink_pc, qc_delay_queue, qc_msg_queue, qc_serial, qc_lines_left, qc_blinks_left, qc_buf,
                   qc_idx, qc_cli_delay, qc_received, qc_led_delay, qc_counter, qc_msg, qc_half_period>>
    /\ UNCHANGED qc_rest

\* A mutant of Stored: the test is idx < buf_len, so the last byte of buf is
\* written as well.
Stored_to_the_end(buf, idx, c) ==
    IF idx < buf_len THEN <<Append(buf, c), idx + 1>> ELSE <<buf, idx>>

\* buf and idx after "if (idx < buf_len - 1) { buf[idx] = c; idx++; }".
Stored(buf, idx, c) ==
    IF idx < buf_len - 1 THEN <<Append(buf, c), idx + 1>> ELSE <<buf, idx>>

\* doCLI: c = Serial.read(); c is stored and, not being '\n' or '\r', echoed.
QC_cli_read_char ==
    /\ qc_cli_pc = "serial"
    /\ qc_serial # <<>>
    /\ Head(qc_serial) \notin {"\n", "\r"}
    /\ qc_serial' = Tail(qc_serial)
    /\ qc_buf' = Stored(qc_buf, qc_idx, Head(qc_serial))[1]
    /\ qc_idx' = Stored(qc_buf, qc_idx, Head(qc_serial))[2]
    /\ qc_cli_pc' = "receive"
    /\ UNCHANGED <<qc_setup_pc, qc_blink_pc, qc_delay_queue, qc_msg_queue, qc_lines_left, qc_blinks_left,
                   qc_cli_delay, qc_received, qc_led_delay, qc_counter, qc_msg, qc_half_period>>
    /\ UNCHANGED qc_rest

\* doCLI: c is '\n' or '\r' and the first 6 bytes of buf are "delay ":
\* led_delay = abs(atoi(buf + cmd_len)); next is the xQueueSend.
QC_cli_read_command ==
    /\ qc_cli_pc = "serial"
    /\ qc_serial # <<>>
    /\ Head(qc_serial) \in {"\n", "\r"}
    /\ IsCommand(Stored(qc_buf, qc_idx, Head(qc_serial))[1])
    /\ qc_serial' = Tail(qc_serial)
    /\ qc_buf' = Stored(qc_buf, qc_idx, Head(qc_serial))[1]
    /\ qc_idx' = Stored(qc_buf, qc_idx, Head(qc_serial))[2]
    /\ qc_cli_delay' = abs(atoi(CommandTail(Stored(qc_buf, qc_idx, Head(qc_serial))[1])))
    /\ qc_cli_pc' = "send"
    /\ UNCHANGED <<qc_setup_pc, qc_blink_pc, qc_delay_queue, qc_msg_queue, qc_lines_left, qc_blinks_left,
                   qc_received, qc_led_delay, qc_counter, qc_msg, qc_half_period>>
    /\ UNCHANGED qc_rest

\* doCLI: c is '\n' or '\r' and buf does not start with "delay ": nothing is
\* sent; memset(buf, 0, buf_len); idx = 0;
QC_cli_read_other ==
    /\ qc_cli_pc = "serial"
    /\ qc_serial # <<>>
    /\ Head(qc_serial) \in {"\n", "\r"}
    /\ ~IsCommand(Stored(qc_buf, qc_idx, Head(qc_serial))[1])
    /\ qc_serial' = Tail(qc_serial)
    /\ qc_buf' = <<>>
    /\ qc_idx' = 0
    /\ qc_cli_pc' = "receive"
    /\ UNCHANGED <<qc_setup_pc, qc_blink_pc, qc_delay_queue, qc_msg_queue, qc_lines_left, qc_blinks_left,
                   qc_cli_delay, qc_received, qc_led_delay, qc_counter, qc_msg, qc_half_period>>
    /\ UNCHANGED qc_rest

\* doCLI: xQueueSend(delay_queue, (void *)&led_delay, 10) finds room; then
\* memset(buf, 0, buf_len); idx = 0;
QC_cli_send ==
    /\ qc_cli_pc = "send"
    /\ ~QueueFull(qc_delay_queue)
    /\ qc_delay_queue' = QueueSent(qc_delay_queue, qc_cli_delay)
    /\ qc_buf' = <<>>
    /\ qc_idx' = 0
    /\ qc_cli_pc' = "receive"
    /\ UNCHANGED <<qc_setup_pc, qc_blink_pc, qc_msg_queue, qc_serial, qc_lines_left, qc_blinks_left,
                   qc_cli_delay, qc_received, qc_led_delay, qc_counter, qc_msg, qc_half_period>>
    /\ UNCHANGED qc_rest

\* doCLI: delay_queue is full: the task blocks for up to 10 ticks.
QC_cli_send_block ==
    /\ qc_cli_pc = "send"
    /\ QueueFull(qc_delay_queue)
    /\ qc_cli_pc' = "send_blocked"
    /\ UNCHANGED <<qc_setup_pc, qc_blink_pc, qc_delay_queue, qc_msg_queue, qc_serial, qc_lines_left, qc_blinks_left, qc_buf,
                   qc_idx, qc_cli_delay, qc_received, qc_led_delay, qc_counter, qc_msg, qc_half_period>>
    /\ UNCHANGED qc_rest

\* doCLI: room opened within the 10 ticks: the blocked xQueueSend completes.
QC_cli_send_wake ==
    /\ qc_cli_pc = "send_blocked"
    /\ ~QueueFull(qc_delay_queue)
    /\ qc_delay_queue' = QueueSent(qc_delay_queue, qc_cli_delay)
    /\ qc_buf' = <<>>
    /\ qc_idx' = 0
    /\ qc_cli_pc' = "receive"
    /\ UNCHANGED <<qc_setup_pc, qc_blink_pc, qc_msg_queue, qc_serial, qc_lines_left, qc_blinks_left,
                   qc_cli_delay, qc_received, qc_led_delay, qc_counter, qc_msg, qc_half_period>>
    /\ UNCHANGED qc_rest

\* A mutant of QC_cli_send_timeout: the failed send ends the task
\* (vTaskDelete(NULL)) instead of going on with the loop.
QC_cli_send_timeout_fatal ==
    /\ qc_cli_pc = "send_blocked"
    /\ QueueFull(qc_delay_queue)
    /\ qc_buf' = <<>>
    /\ qc_idx' = 0
    /\ qc_cli_pc' = "deleted"
    /\ UNCHANGED <<qc_setup_pc, qc_blink_pc, qc_delay_queue, qc_msg_queue, qc_serial, qc_lines_left, qc_blinks_left,
                   qc_cli_delay, qc_received, qc_led_delay, qc_counter, qc_msg, qc_half_period>>
    /\ UNCHANGED qc_rest

\* doCLI: the 10 ticks elapsed with delay_queue still full: the value is
\* dropped ("ERRORL Could not put item on delay queue."); buf is cleared.
QC_cli_send_timeout ==
    /\ qc_cli_pc = "send_blocked"
    /\ QueueFull(qc_delay_queue)
    /\ qc_buf' = <<>>
    /\ qc_idx' = 0
    /\ qc_cli_pc' = "receive"
    /\ UNCHANGED <<qc_setup_pc, qc_blink_pc, qc_delay_queue, qc_msg_queue, qc_serial, qc_lines_left, qc_blinks_left,
                   qc_cli_delay, qc_received, qc_led_delay, qc_counter, qc_msg, qc_half_period>>
    /\ UNCHANGED qc_rest

\* A mutant of QC_blink_receive: one receive adopts the newest queued value
\* and discards the ones queued before it.
QC_blink_receive_latest ==
    /\ qc_blink_pc = "receive"
    /\ ~QueueEmpty(qc_delay_queue)
    /\ qc_led_delay' = qc_delay_queue.items[Len(qc_delay_queue.items)]
    /\ qc_delay_queue' = [qc_delay_queue EXCEPT !.items = <<>>]
    /\ qc_msg' = [body |-> "Message received ", count |-> 1]
    /\ qc_blink_pc' = "send_received"
    /\ UNCHANGED <<qc_setup_pc, qc_cli_pc, qc_msg_queue, qc_serial, qc_lines_left, qc_blinks_left, qc_buf, qc_idx,
                   qc_cli_delay, qc_received, qc_counter, qc_half_period>>
    /\ UNCHANGED qc_rest

\* blinkLED: xQueueReceive(delay_queue, (void*)&led_delay, 0) == pdTRUE:
\* led_delay takes the oldest queued value; strcpy(msg.body, "Message
\* received "); msg.count = 1;
QC_blink_receive ==
    /\ qc_blink_pc = "receive"
    /\ ~QueueEmpty(qc_delay_queue)
    /\ qc_led_delay' = QueueFront(qc_delay_queue)
    /\ qc_delay_queue' = QueueReceived(qc_delay_queue)
    /\ qc_msg' = [body |-> "Message received ", count |-> 1]
    /\ qc_blink_pc' = "send_received"
    /\ UNCHANGED <<qc_setup_pc, qc_cli_pc, qc_msg_queue, qc_serial, qc_lines_left, qc_blinks_left, qc_buf, qc_idx,
                   qc_cli_delay, qc_received, qc_counter, qc_half_period>>
    /\ UNCHANGED qc_rest

\* A mutant of QC_blink_receive_empty: the failed receive clears its
\* destination.
QC_blink_receive_empty_clears ==
    /\ qc_blink_pc = "receive"
    /\ QueueEmpty(qc_delay_queue)
    /\ qc_led_delay' = 0
    /\ qc_blink_pc' = "blink"
    /\ UNCHANGED <<qc_setup_pc, qc_cli_pc, qc_delay_queue, qc_msg_queue, qc_serial, qc_lines_left, qc_blinks_left, qc_buf,
                   qc_idx, qc_cli_delay, qc_received, qc_counter, qc_msg, qc_half_period>>
    /\ UNCHANGED qc_rest

\* blinkLED: delay_queue is empty: xQueueReceive returns at once and
\* led_delay keeps its value.
QC_blink_receive_empty ==
    /\ qc_blink_pc = "receive"
    /\ QueueEmpty(qc_delay_queue)
    /\ qc_blink_pc' = "blink"
    /\ UNCHANGED <<qc_setup_pc, qc_cli_pc, qc_delay_queue, qc_msg_queue, qc_serial, qc_lines_left, qc_blinks_left, qc_buf,
                   qc_idx, qc_cli_delay, qc_received, qc_led_delay, qc_counter, qc_msg, qc_half_period>>
    /\ UNCHANGED qc_rest

\* blinkLED: xQueueSend(msg_queue, (void *)&msg, 10) of "Message received "
\* finds room.
QC_blink_send_received ==
    /\ qc_blink_pc = "send_received"
    /\ ~QueueFull(qc_msg_queue)
    /\ qc_msg_queue' = QueueSent(qc_msg_queue, qc_msg)
    /\ qc_blink_pc' = "blink"
    /\ UNCHANGED <<qc_setup_pc, qc_cli_pc, qc_delay_queue, qc_serial, qc_lines_left, qc_blinks_left, qc_buf, qc_idx,
                   qc_cli_delay, qc_received, qc_led_delay, qc_counter, qc_msg, qc_half_period>>
    /\ UNCHANGED qc_rest

\* blinkLED: msg_queue is full: the task blocks for up to 10 ticks.
QC_blink_send_received_block ==
    /\ qc_blink_pc = "send_received"
    /\ QueueFull(qc_msg_queue)
    /\ qc_blink_pc' = "send_received_blocked"
    /\ UNCHANGED <<qc_setup_pc, qc_cli_pc, qc_delay_queue, qc_msg_queue, qc_serial, qc_lines_left, qc_blinks_left, qc_buf,
                   qc_idx, qc_cli_delay, qc_received, qc_led_delay, qc_counter, qc_msg, qc_half_period>>
    /\ UNCHANGED qc_rest

\* blinkLED: room opened within the 10 ticks: the blocked xQueueSend completes.
QC_blink_send_received_wake ==
    /\ qc_blink_pc = "send_received_blocked"
    /\ ~QueueFull(qc_msg_queue)
    /\ qc_msg_queue' = QueueSent(qc_msg_queue, qc_msg)
    /\ qc_blink_pc' = "blink"
    /\ UNCHANGED <<qc_setup_pc, qc_cli_pc, qc_delay_queue, qc_serial, qc_lines_left, qc_blinks_left, qc_buf, qc_idx,
                   qc_cli_delay, qc_received, qc_led_delay, qc_counter, qc_msg, qc_half_period>>
    /\ UNCHANGED qc_rest

\* blinkLED: the 10 ticks elapsed with msg_queue still full: the message is
\* dropped (the result of xQueueSend is not looked at).
QC_blink_send_received_timeout ==
    /\ qc_blink_pc = "send_received_blocked"
    /\ QueueFull(qc_msg_queue)
    /\ qc_blink_pc' = "blink"
    /\ UNCHANGED <<qc_setup_pc, qc_cli_pc, qc_delay_queue, qc_msg_queue, qc_serial, qc_lines_left, qc_blinks_left, qc_buf,
                   qc_idx, qc_cli_delay, qc_received, qc_led_delay, qc_counter, qc_msg, qc_half_period>>
    /\ UNCHANGED qc_rest

\* blinkLED: one blink (HIGH, vTaskDelay(led_delay), LOW, vTaskDelay(led_delay))
\* and counter++, which stays below blink_max.
QC_blink_blink ==
    /\ qc_blink_pc = "blink"
    /\ qc_blinks_left > 0
    /\ qc_half_period' = qc_led_delay
    /\ qc_blinks_left' = qc_blinks_left - 1
    /\ (qc_counter + 1) % 256 < blink_max
    /\ qc_counter' = (qc_counter + 1) % 256
    /\ qc_blink_pc' = "receive"
    /\ UNCHANGED <<qc_setup_pc, qc_cli_pc, qc_delay_queue, qc_msg_queue, qc_serial, qc_lines_left, qc_buf,
                   qc_idx, qc_cli_delay, qc_received, qc_led_delay, qc_msg>>
    /\ UNCHANGED qc_rest

\* blinkLED: one blink and counter++, which reaches blink_max:
\* strcpy(msg.body, "Blinked: "); msg.count = counter;
QC_blink_blink_max ==
    /\ qc_blink_pc = "blink"
    /\ qc_blinks_left > 0
    /\ qc_half_period' = qc_led_delay
    /\ qc_blinks_left' = qc_blinks_left - 1
    /\ (qc_counter + 1) % 256 >= blink_max
    /\ qc_counter' = (qc_counter + 1) % 256
    /\ qc_msg' = [body |-> "Blinked: ", count |-> (qc_counter + 1) % 256]
    /\ qc_blink_pc' = "send_blinked"
    /\ UNCHANGED <<qc_setup_pc, qc_cli_pc, qc_delay_queue, qc_msg_queue, qc_serial, qc_lines_left, qc_buf,
                   qc_idx, qc_cli_delay, qc_received, qc_led_delay>>
    /\ UNCHANGED qc_rest

\* A mutant of QC_blink_send_blinked: the counter is not reset after the
\* report.
QC_blink_send_blinked_no_reset ==
    /\ qc_blink_pc = "send_blinked"
    /\ ~QueueFull(qc_msg_queue)
    /\ qc_msg_queue' = QueueSent(qc_msg_queue, qc_msg)
    /\ qc_blink_pc' = "receive"
    /\ UNCHANGED <<qc_setup_pc, qc_cli_pc, qc_delay_queue, qc_serial, qc_lines_left, qc_blinks_left, qc_buf, qc_idx,
                   qc_cli_delay, qc_received, qc_led_delay, qc_counter, qc_msg, qc_half_period>>
    /\ UNCHANGED qc_rest

\* blinkLED: xQueueSend(msg_queue, (void *)&msg, 10) of "Blinked: " finds
\* room; counter = 0;
QC_blink_send_blinked ==
    /\ qc_blink_pc = "send_blinked"
    /\ ~QueueFull(qc_msg_queue)
    /\ qc_msg_queue' = QueueSent(qc_msg_queue, qc_msg)
    /\ qc_counter' = 0
    /\ qc_blink_pc' = "receive"
    /\ UNCHANGED <<qc_setup_pc, qc_cli_pc, qc_delay_queue, qc_serial, qc_lines_left, qc_blinks_left, qc_buf, qc_idx,
                   qc_cli_delay, qc_received, qc_led_delay, qc_msg, qc_half_period>>
    /\ UNCHANGED qc_rest

\* blinkLED: msg_queue is full: the task blocks for up to 10 ticks.
QC_blink_send_blinked_block ==
    /\ qc_blink_pc = "send_blinked"
    /\ QueueFull(qc_msg_queue)
    /\ qc_blink_pc' = "send_blinked_blocked"
    /\ UNCHANGED <<qc_setup_pc, qc_cli_pc, qc_delay_queue, qc_msg_queue, qc_serial, qc_lines_left, qc_blinks_left, qc_buf,
                   qc_idx, qc_cli_delay, qc_received, qc_led_delay, qc_counter, qc_msg, qc_half_period>>
    /\ UNCHANGED qc_rest

\* blinkLED: room opened within the 10 ticks: the blocked xQueueSend
\* completes; counter = 0;
QC_blink_send_blinked_wake ==
    /\ qc_blink_pc = "send_blinked_blocked"
    /\ ~QueueFull(qc_msg_queue)
    /\ qc_msg_queue' = QueueSent(qc_msg_queue, qc_msg)
    /\ qc_counter' = 0
    /\ qc_blink_pc' = "receive"
    /\ UNCHANGED <<qc_setup_pc, qc_cli_pc, qc_delay_queue, qc_serial, qc_lines_left, qc_blinks_left, qc_buf, qc_idx,
                   qc_cli_delay, qc_received, qc_led_delay, qc_msg, qc_half_period>>
    /\ UNCHANGED qc_rest

\* blinkLED: the 10 ticks elapsed with msg_queue still full: the message is
\* dropped; counter = 0;
QC_blink_send_blinked_timeout ==
    /\ qc_blink_pc = "send_blinked_blocked"
    /\ QueueFull(qc_msg_queue)
    /\ qc_counter' = 0
    /\ qc_blink_pc' = "receive"
    /\ UNCHANGED <<qc_setup_pc, qc_cli_pc, qc_delay_queue, qc_msg_queue, qc_serial, qc_lines_left, qc_blinks_left, qc_buf,
                   qc_idx, qc_cli_delay, qc_received, qc_led_delay, qc_msg, qc_half_period>>
    /\ UNCHANGED qc_rest

QC_Next ==
    \/ QC_setup_create_delay_queue
    \/ QC_setup_create_msg_queue
    \/ QC_setup_create_cli
    \/ QC_setup_create_blink
    \/ QC_setup_delete
    \/ QC_type_line
    \/ QC_cli_receive
    \/ QC_cli_receive_empty
    \/ QC_cli_no_input
    \/ QC_cli_read_char
    \/ QC_cli_read_command
    \/ QC_cli_read_other
    \/ QC_cli_send
    \/ QC_cli_send_block
    \/ QC_cli_send_wake
    \/ QC_cli_send_timeout
    \/ QC_blink_receive
    \/ QC_blink_receive_empty
    \/ QC_blink_send_received
    \/ QC_blink_send_received_block
    \/ QC_blink_send_received_wake
    \/ QC_blink_send_received_timeout
    \/ QC_blink_blink
    \/ QC_blink_blink_max
    \/ QC_blink_send_blinked
    \/ QC_blink_send_blinked_block
    \/ QC_blink_send_blinked_wake
    \/ QC_blink_send_blinked_timeout

\* ========================================================= 7-semaphore-counting

\* static const int num_tasks = 5;
num_tasks == 5

\* The tasks setup starts: for (int i = 0; i <= num_tasks; i++)
ScTasks == 0..num_tasks

\* char body[20]; the size of Message.body in both programs that have a
\* Message.
body_size == 20

\* char text[30] = "All your base EfraimMM";
ScText == "All your base EfraimMM"

\* The number of bytes strcpy(dest, src) writes from dest on: the characters
\* of src and the terminating NUL.
strcpy_bytes(src) == Len(src) + 1

\* msg_input after strcpy(msg_input.body, text); msg_input.len = strlen(text);
\* (body holds the first 20 characters of text).
ScMessage == [body |-> "All your base Efraim", len |-> 22]

\* What the stack slot of msg_input may hold when it does not hold the
\* message: the bytes some other call left there.
ScGarbage == [body |-> "?", len |-> 0]

SC_Off ==
    /\ sc_setup_pc = "off"
    /\ sc_i = 0
    /\ sc_pc = [t \in ScTasks |-> "off"]
    /\ sc_sem_params = NULL
    /\ sc_msg_input = ScGarbage
    /\ sc_msg = [t \in ScTasks |-> ScGarbage]
    /\ sc_given = [t \in ScTasks |-> "none"]

\* The program at reset: no semaphore, no task, msg_input uninitialised.
SC_Init ==
    /\ sc_setup_pc = "create_sem"
    /\ sc_i = 0
    /\ sc_pc = [t \in ScTasks |-> "off"]
    /\ sc_sem_params = NULL
    /\ sc_msg_input = ScGarbage
    /\ sc_msg = [t \in ScTasks |-> ScGarbage]
    /\ sc_given = [t \in ScTasks |-> "none"]

\* setup: sem_params = xSemaphoreCreateCounting(num_tasks, 0);
SC_setup_create_sem ==
    /\ sc_setup_pc = "create_sem"
    /\ sc_sem_params' = xSemaphoreCreateCounting(num_tasks, 0)
    /\ sc_setup_pc' = "fill_msg"
    /\ UNCHANGED <<sc_i, sc_pc, sc_msg_input, sc_msg, sc_given>>
    /\ UNCHANGED sc_rest

\* setup: strcpy(msg_input.body, text); msg_input.len = strlen(text); i = 0;
SC_setup_fill_msg ==
    /\ sc_setup_pc = "fill_msg"
    /\ sc_msg_input' = ScMessage
    /\ sc_i' = 0
    /\ sc_setup_pc' = "create_tasks"
    /\ UNCHANGED <<sc_pc, sc_sem_params, sc_msg, sc_given>>
    /\ UNCHANGED sc_rest

\* setup: an iteration of "for (int i = 0; i <= num_tasks; i++)":
\* xTaskCreatePinnedToCore(myTask, task_name, 1024, (void *)&msg_input, 1, ...)
SC_setup_create_task ==
    /\ sc_setup_pc = "create_tasks"
    /\ sc_i <= num_tasks
    /\ sc_pc' = [sc_pc EXCEPT ![sc_i] = "copy"]
    /\ sc_i' = sc_i + 1
    /\ UNCHANGED <<sc_setup_pc, sc_sem_params, sc_msg_input, sc_msg, sc_given>>
    /\ UNCHANGED sc_rest

\* setup: the creation loop ends; i = 0 for the loop of takes.
SC_setup_tasks_created ==
    /\ sc_setup_pc = "create_tasks"
    /\ ~(sc_i <= num_tasks)
    /\ sc_i' = 0
    /\ sc_setup_pc' = "take"
    /\ UNCHANGED <<sc_pc, sc_sem_params, sc_msg_input, sc_msg, sc_given>>
    /\ UNCHANGED sc_rest

\* setup: an iteration of "for (int i = 0; i < num_tasks; i++)":
\* xSemaphoreTake(sem_params, portMAX_DELAY); setup stays blocked here while
\* the count is 0.
SC_setup_take ==
    /\ sc_setup_pc = "take"
    /\ sc_i < num_tasks
    /\ SemAvailable(sc_sem_params)
    /\ sc_sem_params' = SemTaken(sc_sem_params, "none")
    /\ sc_i' = sc_i + 1
    /\ UNCHANGED <<sc_setup_pc, sc_pc, sc_msg_input, sc_msg, sc_given>>
    /\ UNCHANGED sc_rest

\* setup: the loop of takes ends; Serial.println("All tasks created"); and
\* setup returns: its stack frame is released.
SC_setup_return ==
    /\ sc_setup_pc = "take"
    /\ ~(sc_i < num_tasks)
    /\ sc_setup_pc' = "loop"
    /\ UNCHANGED <<sc_i, sc_pc, sc_sem_params, sc_msg_input, sc_msg, sc_given>>
    /\ UNCHANGED sc_rest

\* loop(): vTaskDelay(1000 / portTICK_PERIOD_MS); the calls made after setup
\* returned reuse its stack, so the slot that held msg_input may now hold
\* anything.
SC_loop ==
    /\ sc_setup_pc = "loop"
    /\ sc_msg_input' \in {ScMessage, ScGarbage}
    /\ UNCHANGED <<sc_setup_pc, sc_i, sc_pc, sc_sem_params, sc_msg, sc_given>>
    /\ UNCHANGED sc_rest

\* myTask: Message msg = *(Message *)parameters; (reads whatever the slot holds)
SC_task_copy(t) ==
    /\ sc_pc[t] = "copy"
    /\ sc_msg' = [sc_msg EXCEPT ![t] = sc_msg_input]
    /\ sc_pc' = [sc_pc EXCEPT ![t] = "give"]
    /\ UNCHANGED <<sc_setup_pc, sc_i, sc_sem_params, sc_msg_input, sc_given>>
    /\ UNCHANGED sc_rest

\* myTask: xSemaphoreGive(sem_params); (its result is not looked at)
SC_task_give(t) ==
    /\ sc_pc[t] = "give"
    /\ sc_sem_params' = SemGiven(sc_sem_params)
    /\ sc_given' = [sc_given EXCEPT ![t] =
            IF SemGiven(sc_sem_params) = sc_sem_params THEN "errQUEUE_FULL" ELSE "pdTRUE"]
    /\ sc_pc' = [sc_pc EXCEPT ![t] = "print"]
    /\ UNCHANGED <<sc_setup_pc, sc_i, sc_msg_input, sc_msg>>
    /\ UNCHANGED sc_rest

\* A mutant of SC_task_print: after printing the task goes back to its
\* xSemaphoreGive.
SC_task_print_again(t) ==
    /\ sc_pc[t] = "print"
    /\ sc_pc' = [sc_pc EXCEPT ![t] = "give"]
    /\ UNCHANGED <<sc_setup_pc, sc_i, sc_sem_params, sc_msg_input, sc_msg, sc_given>>
    /\ UNCHANGED sc_rest

\* myTask: print msg.body and msg.len; vTaskDelay(1000 / portTICK_PERIOD_MS);
SC_task_print(t) ==
    /\ sc_pc[t] = "print"
    /\ sc_pc' = [sc_pc EXCEPT ![t] = "delete"]
    /\ UNCHANGED <<sc_setup_pc, sc_i, sc_sem_params, sc_msg_input, sc_msg, sc_given>>
    /\ UNCHANGED sc_rest

\* myTask: vTaskDelete(NULL);
SC_task_delete(t) ==
    /\ sc_pc[t] = "delete"
    /\ sc_pc' = [sc_pc EXCEPT ![t] = "deleted"]
    /\ UNCHANGED <<sc_setup_pc, sc_i, sc_sem_params, sc_msg_input, sc_msg, sc_given>>
    /\ UNCHANGED sc_rest

SC_Next ==
    \/ SC_setup_create_sem
    \/ SC_setup_fill_msg
    \/ SC_setup_create_task
    \/ SC_setup_tasks_created
    \/ SC_setup_take
    \/ SC_setup_return
    \/ SC_loop
    \/ \E t \in ScTasks :
        \/ SC_task_copy(t)
        \/ SC_task_give(t)
        \/ SC_task_print(t)
        \/ SC_task_delete(t)

\* A step of the myTask instance t.
SC_Task(t) ==
    \/ SC_task_copy(t)
    \/ SC_task_give(t)
    \/ SC_task_print(t)
    \/ SC_task_delete(t)

\* ============================ 9-hardware-interrupts, isr-critical-section demo

CS_Off ==
    /\ cs_setup_pc = "off"
    /\ cs_task_pc = "off"
    /\ cs_timer = "disabled"
    /\ cs_isr_counter = 0
    /\ cs_spinlock = "unlocked"
    /\ cs_reg = 0
    /\ cs_fired = 0
    /\ cs_decs = 0
    /\ cs_printed = <<>>

\* The program at reset: isr_counter is zero-initialised, the spinlock is
\* portMUX_INITIALIZER_UNLOCKED, timer = NULL.
CS_Init ==
    /\ cs_setup_pc = "create_task"
    /\ cs_task_pc = "off"
    /\ cs_timer = "disabled"
    /\ cs_isr_counter = 0
    /\ cs_spinlock = "unlocked"
    /\ cs_reg = 0
    /\ cs_fired = 0
    /\ cs_decs = 0
    /\ cs_printed = <<>>

\* setup: xTaskCreatePinnedToCore(printValues, "Print values", ...)
CS_setup_create_task ==
    /\ cs_setup_pc = "create_task"
    /\ cs_task_pc' = "test"
    /\ cs_setup_pc' = "start_timer"
    /\ UNCHANGED <<cs_timer, cs_isr_counter, cs_spinlock, cs_reg, cs_fired, cs_decs, cs_printed>>
    /\ UNCHANGED cs_rest

\* setup: timerBegin, timerAttachInterrupt(timer, &onTimer, true),
\* timerAlarmWrite, timerAlarmEnable(timer)
CS_setup_start_timer ==
    /\ cs_setup_pc = "start_timer"
    /\ cs_timer' = "enabled"
    /\ cs_setup_pc' = "delete"
    /\ UNCHANGED <<cs_task_pc, cs_isr_counter, cs_spinlock, cs_reg, cs_fired, cs_decs, cs_printed>>
    /\ UNCHANGED cs_rest

\* setup: vTaskDelete(NULL);
CS_setup_delete ==
    /\ cs_setup_pc = "delete"
    /\ cs_setup_pc' = "deleted"
    /\ UNCHANGED <<cs_task_pc, cs_timer, cs_isr_counter, cs_spinlock, cs_reg, cs_fired, cs_decs,
                   cs_printed>>
    /\ UNCHANGED cs_rest

\* onTimer, the whole handler: portENTER_CRITICAL_ISR(&spinlock);
\* isr_counter++; portEXIT_CRITICAL_ISR(&spinlock);  It runs to completion
\* between two instructions of the task.  It cannot start while the task is
\* inside portENTER_CRITICAL, which masks the interrupts of the core (and
\* holds the spinlock the handler needs).
CS_onTimer ==
    /\ cs_timer = "enabled"
    /\ cs_spinlock = "unlocked"
    /\ cs_fired < MaxFirings
    /\ cs_isr_counter' = cs_isr_counter + 1
    /\ cs_fired' = cs_fired + 1
    /\ UNCHANGED <<cs_setup_pc, cs_task_pc, cs_timer, cs_spinlock, cs_reg, cs_decs, cs_printed>>
    /\ UNCHANGED cs_rest

\* A mutant of CS_task_test_positive: the drain loop goes on while the
\* counter is not negative (isr_counter >= 0).
CS_task_test_not_negative ==
    /\ cs_task_pc = "test"
    /\ cs_isr_counter >= 0
    /\ cs_task_pc' = "print"
    /\ UNCHANGED <<cs_setup_pc, cs_timer, cs_isr_counter, cs_spinlock, cs_reg, cs_fired, cs_decs,
                   cs_printed>>
    /\ UNCHANGED cs_rest

\* printValues: while (isr_counter > 0), when the counter is positive
CS_task_test_positive ==
    /\ cs_task_pc = "test"
    /\ cs_isr_counter > 0
    /\ cs_task_pc' = "print"
    /\ UNCHANGED <<cs_setup_pc, cs_timer, cs_isr_counter, cs_spinlock, cs_reg, cs_fired, cs_decs,
                   cs_printed>>
    /\ UNCHANGED cs_rest

\* printValues: while (isr_counter > 0), when it is not: the drain loop ends
CS_task_test_zero ==
    /\ cs_task_pc = "test"
    /\ ~(cs_isr_counter > 0)
    /\ cs_task_pc' = "delay"
    /\ UNCHANGED <<cs_setup_pc, cs_timer, cs_isr_counter, cs_spinlock, cs_reg, cs_fired, cs_decs,
                   cs_printed>>
    /\ UNCHANGED cs_rest

\* printValues: Serial.println(isr_counter);
CS_task_print ==
    /\ cs_task_pc = "print"
    /\ cs_printed' = Append(cs_printed, cs_isr_counter)
    /\ cs_task_pc' = "enter"
    /\ UNCHANGED <<cs_setup_pc, cs_timer, cs_isr_counter, cs_spinlock, cs_reg, cs_fired, cs_decs>>
    /\ UNCHANGED cs_rest

\* A mutant of CS_task_enter: the task goes on to the decrement without
\* entering the critical section.
CS_task_enter_skipped ==
    /\ cs_task_pc = "enter"
    /\ cs_task_pc' = "dec_load"
    /\ UNCHANGED <<cs_setup_pc, cs_timer, cs_isr_counter, cs_spinlock, cs_reg, cs_fired, cs_decs,
                   cs_printed>>
    /\ UNCHANGED cs_rest

\* printValues: portENTER_CRITICAL(&spinlock);
CS_task_enter ==
    /\ cs_task_pc = "enter"
    /\ cs_spinlock = "unlocked"
    /\ cs_spinlock' = "task"
    /\ cs_task_pc' = "dec_load"
    /\ UNCHANGED <<cs_setup_pc, cs_timer, cs_isr_counter, cs_reg, cs_fired, cs_decs, cs_printed>>
    /\ UNCHANGED cs_rest

\* printValues: isr_counter--; the load of the volatile counter
CS_task_dec_load ==
    /\ cs_task_pc = "dec_load"
    /\ cs_reg' = cs_isr_counter
    /\ cs_task_pc' = "dec_store"
    /\ UNCHANGED <<cs_setup_pc, cs_timer, cs_isr_counter, cs_spinlock, cs_fired, cs_decs,
                   cs_printed>>
    /\ UNCHANGED cs_rest

\* printValues: isr_counter--; the store of the decremented value
CS_task_dec_store ==
    /\ cs_task_pc = "dec_store"
    /\ cs_isr_counter' = cs_reg - 1
    /\ cs_decs' = cs_decs + 1
    /\ cs_task_pc' = "exit"
    /\ UNCHANGED <<cs_setup_pc, cs_timer, cs_spinlock, cs_reg, cs_fired, cs_printed>>
    /\ UNCHANGED cs_rest

\* printValues: portEXIT_CRITICAL(&spinlock);
CS_task_exit ==
    /\ cs_task_pc = "exit"
    /\ cs_spinlock' = "unlocked"
    /\ cs_task_pc' = "test"
    /\ UNCHANGED <<cs_setup_pc, cs_timer, cs_isr_counter, cs_reg, cs_fired, cs_decs, cs_printed>>
    /\ UNCHANGED cs_rest

\* printValues: vTaskDelay(task_delay);
CS_task_delay ==
    /\ cs_task_pc = "delay"
    /\ cs_task_pc' = "test"
    /\ UNCHANGED <<cs_setup_pc, cs_timer, cs_isr_counter, cs_spinlock, cs_reg, cs_fired, cs_decs,
                   cs_printed>>
    /\ UNCHANGED cs_rest

CS_Next ==
    \/ CS_setup_create_task
    \/ CS_setup_start_timer
    \/ CS_setup_delete
    \/ CS_onTimer
    \/ CS_task_test_positive
    \/ CS_task_test_zero
    \/ CS_task_print
    \/ CS_task_enter
    \/ CS_task_dec_load
    \/ CS_task_dec_store
    \/ CS_task_exit
    \/ CS_task_delay

\* printValues is inside its critical section: between portENTER_CRITICAL
\* and portEXIT_CRITICAL.
CS_TaskInCritical == cs_spinlock = "task"

\* onTimer of this program makes its write inside a critical section: the
\* whole body is between portENTER_CRITICAL_ISR(&spinlock) and
\* portEXIT_CRITICAL_ISR(&spinlock).
CS_IsrInCritical == TRUE

\* ================================= 9-hardware-interrupts, isr-semaphore demo

\* The values analogRead(adc_pin) may return.
AdcValues == 0..MaxAdc

IS_Off ==
    /\ is_setup_pc = "off"
    /\ is_task_pc = "off"
    /\ is_running = "none"
    /\ is_timer = "disabled"
    /\ is_val = 0
    /\ is_bin_sem = NULL
    /\ is_fired = 0
    /\ is_loops = 0
    /\ is_printed = <<>>

\* The program at reset: val is zero-initialised, bin_sem = NULL, timer = NULL;
\* the "setup and loop" task (priority 1) runs setup.
IS_Init ==
    /\ is_setup_pc = "create_sem"
    /\ is_task_pc = "off"
    /\ is_running = "loopTask"
    /\ is_timer = "disabled"
    /\ is_val = 0
    /\ is_bin_sem = NULL
    /\ is_fired = 0
    /\ is_loops = 0
    /\ is_printed = <<>>

\* setup: bin_sem = xSemaphoreCreateBinary(); and the test bin_sem == NULL
\* finds the semaphore created.
IS_setup_create_sem ==
    /\ is_running = "loopTask"
    /\ is_setup_pc = "create_sem"
    /\ is_bin_sem' = xSemaphoreCreateBinary
    /\ is_setup_pc' = "create_task"
    /\ UNCHANGED <<is_task_pc, is_running, is_timer, is_val, is_fired, is_loops, is_printed>>
    /\ UNCHANGED is_rest

\* setup: xSemaphoreCreateBinary() returns NULL (no heap left):
\* Serial.println("Could not create semaphore");
IS_setup_create_sem_failed ==
    /\ is_running = "loopTask"
    /\ is_setup_pc = "create_sem"
    /\ is_bin_sem' = NULL
    /\ is_setup_pc' = "restart"
    /\ UNCHANGED <<is_task_pc, is_running, is_timer, is_val, is_fired, is_loops, is_printed>>
    /\ UNCHANGED is_rest

\* setup: ESP.restart(); the program starts again from reset.
IS_setup_restart ==
    /\ is_running = "loopTask"
    /\ is_setup_pc = "restart"
    /\ is_setup_pc' = "create_sem"
    /\ UNCHANGED <<is_task_pc, is_running, is_timer, is_val, is_bin_sem, is_fired, is_loops,
                   is_printed>>
    /\ UNCHANGED is_rest

\* setup: xTaskCreatePinnedToCore(printValues, "Print values", ..., 2, ...):
\* the new task has the higher priority and the same core, so it runs at
\* once.
IS_setup_create_task ==
    /\ is_running = "loopTask"
    /\ is_setup_pc = "create_task"
    /\ is_task_pc' = "take"
    /\ is_running' = "printValues"
    /\ is_setup_pc' = "start_timer"
    /\ UNCHANGED <<is_timer, is_val, is_bin_sem, is_fired, is_loops, is_printed>>
    /\ UNCHANGED is_rest

\* setup: timerBegin, timerAttachInterrupt(timer, &onTimer, true),
\* timerAlarmWrite, timerAlarmEnable(timer); setup returns.
IS_setup_start_timer ==
    /\ is_running = "loopTask"
    /\ is_setup_pc = "start_timer"
    /\ is_timer' = "enabled"
    /\ is_setup_pc' = "loop"
    /\ UNCHANGED <<is_task_pc, is_running, is_val, is_bin_sem, is_fired, is_loops, is_printed>>
    /\ UNCHANGED is_rest

\* loop(): "Do nothing, forever": one more call of loop() by the priority-1
\* "setup and loop" task.
IS_loop ==
    /\ is_running = "loopTask"
    /\ is_setup_pc = "loop"
    /\ is_loops < MaxLoops
    /\ is_loops' = is_loops + 1
    /\ UNCHANGED <<is_setup_pc, is_task_pc, is_running, is_timer, is_val, is_bin_sem, is_fired,
                   is_printed>>
    /\ UNCHANGED is_rest

\* A mutant of IS_onTimer: the handler does not yield when its give woke
\* printValues.
IS_onTimer_no_yield ==
    /\ is_timer = "enabled"
    /\ is_fired < MaxFirings
    /\ \E v \in AdcValues : is_val' = v
    /\ is_bin_sem' = SemGiven(is_bin_sem)
    /\ is_task_pc' = IF is_task_pc = "blocked" THEN "take" ELSE is_task_pc
    /\ is_fired' = is_fired + 1
    /\ UNCHANGED <<is_setup_pc, is_running, is_timer, is_loops, is_printed>>
    /\ UNCHANGED is_rest

\* onTimer, the whole handler: val = analogRead(adc_pin);
\* xSemaphoreGiveFromISR(bin_sem, &task_woken), which never waits and makes
\* printValues ready when it was blocked on bin_sem; then, task_woken being
\* set, portYIELD_FROM_ISR(): the handler returns into printValues.  The
\* handler enters no critical section; nothing in the program masks it.
IS_onTimer ==
    /\ is_timer = "enabled"
    /\ is_fired < MaxFirings
    /\ \E v \in AdcValues : is_val' = v
    /\ is_bin_sem' = SemGiven(is_bin_sem)
    /\ is_task_pc' = IF is_task_pc = "blocked" THEN "take" ELSE is_task_pc
    /\ is_running' = IF is_task_pc = "blocked" THEN "printValues" ELSE is_running
    /\ is_fired' = is_fired + 1
    /\ UNCHANGED <<is_setup_pc, is_timer, is_loops, is_printed>>
    /\ UNCHANGED is_rest

\* printValues: xSemaphoreTake(bin_sem, portMAX_DELAY) finds the semaphore
\* given.
IS_task_take ==
    /\ is_running = "printValues"
    /\ is_task_pc = "take"
    /\ SemAvailable(is_bin_sem)
    /\ is_bin_sem' = SemTaken(is_bin_sem, "none")
    /\ is_task_pc' = "print"
    /\ UNCHANGED <<is_setup_pc, is_running, is_timer, is_val, is_fired, is_loops, is_printed>>
    /\ UNCHANGED is_rest

\* printValues: xSemaphoreTake(bin_sem, portMAX_DELAY) finds the semaphore
\* empty: the task blocks and the processor goes to the "setup and loop"
\* task.
IS_task_block ==
    /\ is_running = "printValues"
    /\ is_task_pc = "take"
    /\ ~SemAvailable(is_bin_sem)
    /\ is_task_pc' = "blocked"
    /\ is_running' = "loopTask"
    /\ UNCHANGED <<is_setup_pc, is_timer, is_val, is_bin_sem, is_fired, is_loops, is_printed>>
    /\ UNCHANGED is_rest

\* printValues: Serial.println(val);
IS_task_print ==
    /\ is_running = "printValues"
    /\ is_task_pc = "print"
    /\ is_printed' = Append(is_printed, is_val)
    /\ is_task_pc' = "take"
    /\ UNCHANGED <<is_setup_pc, is_running, is_timer, is_val, is_bin_sem, is_fired, is_loops>>
    /\ UNCHANGED is_rest

IS_Next ==
    \/ IS_setup_create_sem
    \/ IS_setup_create_sem_failed
    \/ IS_setup_restart
    \/ IS_setup_create_task
    \/ IS_setup_start_timer
    \/ IS_loop
    \/ IS_onTimer
    \/ IS_task_take
    \/ IS_task_block
    \/ IS_task_print

\* printValues of this program is never inside a critical section: the file
\* has no portENTER_CRITICAL and declares no spinlock.
IS_TaskInCritical == FALSE

\* onTimer of this program makes its write inside a critical section: never,
\* the handler calls no portENTER_CRITICAL_ISR and the file declares no
\* spinlock.
IS_IsrInCritical == FALSE

\* printValues (priority 2) is ready to run: created and not blocked on
\* bin_sem.
IS_TaskReady == is_task_pc \in {"take", "print"}

\* ================================================ 4-memory-management-challenge

\* static const uint8_t string_len = 255;
string_len == 255

\* The heap blocks pvPortMalloc can hand out before the heap is exhausted.
HeapBlocks == 1..MaxHeapBlocks

\* A heap block that is not allocated.
FreeBlock == [used |-> FALSE, notified |-> FALSE, text |-> <<>>]

\* The lines a user types, each ended by '\n'.
MmLines == { <<"a", "\n">>, <<"b", "c", "\n">> }

MM_Off ==
    /\ mm_setup_pc = "off"
    /\ mm_first_pc = "off"
    /\ mm_second_pc = "off"
    /\ mm_secondTaskHandle = "NULL"
    /\ mm_serial = <<>>
    /\ mm_lines_left = 0
    /\ mm_string_input = <<>>
    /\ mm_idx = 0
    /\ mm_string_send = 0
    /\ mm_heap = [b \in HeapBlocks |-> FreeBlock]
    /\ mm_notified = FALSE
    /\ mm_value = 0
    /\ mm_received_string = 0
    /\ mm_first_out = "none"
    /\ mm_second_out = <<>>
    /\ mm_abort = "none"

\* The program at reset: secondTaskHandle = NULL, no task, nothing allocated.
MM_Init ==
    /\ mm_setup_pc = "create_first"
    /\ mm_first_pc = "off"
    /\ mm_second_pc = "off"
    /\ mm_secondTaskHandle = "NULL"
    /\ mm_serial = <<>>
    /\ mm_lines_left = MaxMmLines
    /\ mm_string_input = <<>>
    /\ mm_idx = 0
    /\ mm_string_send = 0
    /\ mm_heap = [b \in HeapBlocks |-> FreeBlock]
    /\ mm_notified = FALSE
    /\ mm_value = 0
    /\ mm_received_string = 0
    /\ mm_first_out = "none"
    /\ mm_second_out = <<>>
    /\ mm_abort = "none"

\* The program runs: nothing has aborted it.
MM_Running == mm_abort = "none"

\* setup: xTaskCreatePinnedToCore(firstTask, "First Task", 2048, NULL, 1, NULL,
\* app_cpu); firstTask starts with idx = 0 and string_input cleared.
MM_setup_create_first ==
    /\ MM_Running
    /\ mm_setup_pc = "create_first"
    /\ mm_first_pc' = "serial"
    /\ mm_setup_pc' = "create_second"
    /\ UNCHANGED <<mm_second_pc, mm_secondTaskHandle, mm_serial, mm_lines_left, mm_string_input,
                   mm_idx, mm_string_send, mm_heap, mm_notified, mm_value, mm_received_string,
                   mm_first_out, mm_second_out, mm_abort>>
    /\ UNCHANGED mm_rest

\* setup: xTaskCreatePinnedToCore(secondTask, "Second Task", 2048, NULL, 1,
\* &secondTaskHandle, app_cpu); and setup returns.
MM_setup_create_second ==
    /\ MM_Running
    /\ mm_setup_pc = "create_second"
    /\ mm_second_pc' = "wait"
    /\ mm_secondTaskHandle' = "Second Task"
    /\ mm_setup_pc' = "loop"
    /\ UNCHANGED <<mm_first_pc, mm_serial, mm_lines_left, mm_string_input, mm_idx, mm_string_send,
                   mm_heap, mm_notified, mm_value, mm_received_string, mm_first_out,
                   mm_second_out, mm_abort>>
    /\ UNCHANGED mm_rest

\* The user types one more line on the serial monitor.
MM_type_line ==
    /\ MM_Running
    /\ mm_serial = <<>>
    /\ mm_lines_left > 0
    /\ \E line \in MmLines : mm_serial' = line
    /\ mm_lines_left' = mm_lines_left - 1
    /\ UNCHANGED <<mm_setup_pc, mm_first_pc, mm_second_pc, mm_secondTaskHandle, mm_string_input,
                   mm_idx, mm_string_send, mm_heap, mm_notified, mm_value, mm_received_string,
                   mm_first_out, mm_second_out, mm_abort>>
    /\ UNCHANGED mm_rest

\* firstTask: c = Serial.read(); c is not '\n': string_input[idx++] = c when
\* idx < string_len - 1, else c is dropped.
MM_first_read_char ==
    /\ MM_Running
    /\ mm_first_pc = "serial"
    /\ mm_serial # <<>>
    /\ Head(mm_serial) # "\n"
    /\ mm_serial' = Tail(mm_serial)
    /\ IF mm_idx < string_len - 1
       THEN mm_string_input' = Append(mm_string_input, Head(mm_serial)) /\ mm_idx' = mm_idx + 1
       ELSE UNCHANGED <<mm_string_input, mm_idx>>
    /\ UNCHANGED <<mm_setup_pc, mm_first_pc, mm_second_pc, mm_secondTaskHandle, mm_lines_left,
                   mm_string_send, mm_heap, mm_notified, mm_value, mm_received_string,
                   mm_first_out, mm_second_out, mm_abort>>
    /\ UNCHANGED mm_rest

\* firstTask: c = Serial.read(); c is '\n': next is the pvPortMalloc.
MM_first_read_newline ==
    /\ MM_Running
    /\ mm_first_pc = "serial"
    /\ mm_serial # <<>>
    /\ Head(mm_serial) = "\n"
    /\ mm_serial' = Tail(mm_serial)
    /\ mm_first_pc' = "malloc"
    /\ UNCHANGED <<mm_setup_pc, mm_second_pc, mm_secondTaskHandle, mm_lines_left, mm_string_input,
                   mm_idx, mm_string_send, mm_heap, mm_notified, mm_value, mm_received_string,
                   mm_first_out, mm_second_out, mm_abort>>
    /\ UNCHANGED mm_rest

\* firstTask: string_send = pvPortMalloc(idx + 1) succeeds;
\* strncpy(string_send, string_input, idx); string_send[idx] = '\0';
MM_first_malloc ==
    /\ MM_Running
    /\ mm_first_pc = "malloc"
    /\ \E b \in HeapBlocks :
        /\ ~mm_heap[b].used
        /\ \A o \in HeapBlocks : o < b => mm_heap[o].used
        /\ mm_string_send' = b
        /\ mm_heap' = [mm_heap EXCEPT ![b] =
                [used |-> TRUE, notified |-> FALSE, text |-> mm_string_input]]
    /\ mm_first_pc' = "notify"
    /\ UNCHANGED <<mm_setup_pc, mm_second_pc, mm_secondTaskHandle, mm_serial, mm_lines_left,
                   mm_string_input, mm_idx, mm_notified, mm_value, mm_received_string,
                   mm_first_out, mm_second_out, mm_abort>>
    /\ UNCHANGED mm_rest

\* A mutant of MM_first_malloc_failed: the NULL pointer is sent to
\* secondTask all the same.
MM_first_malloc_failed_notifies ==
    /\ MM_Running
    /\ mm_first_pc = "malloc"
    /\ \A b \in HeapBlocks : mm_heap[b].used
    /\ mm_string_send' = 0
    /\ mm_notified' = TRUE
    /\ mm_value' = 0
    /\ mm_first_out' = "Memory allocation failed!"
    /\ mm_first_pc' = "clear"
    /\ UNCHANGED <<mm_setup_pc, mm_second_pc, mm_secondTaskHandle, mm_serial, mm_lines_left,
                   mm_string_input, mm_idx, mm_heap, mm_received_string,
                   mm_second_out, mm_abort>>
    /\ UNCHANGED mm_rest

\* firstTask: pvPortMalloc returns NULL (the heap is exhausted):
\* Serial.println("Memory allocation failed!");
MM_first_malloc_failed ==
    /\ MM_Running
    /\ mm_first_pc = "malloc"
    /\ \A b \in HeapBlocks : mm_heap[b].used
    /\ mm_string_send' = 0
    /\ mm_first_out' = "Memory allocation failed!"
    /\ mm_first_pc' = "clear"
    /\ UNCHANGED <<mm_setup_pc, mm_second_pc, mm_secondTaskHandle, mm_serial, mm_lines_left,
                   mm_string_input, mm_idx, mm_heap, mm_notified, mm_value, mm_received_string,
                   mm_second_out, mm_abort>>
    /\ UNCHANGED mm_rest

\* firstTask: xTaskNotify(secondTaskHandle, (uint32_t)string_send,
\* eSetValueWithOverwrite): the notification value is set, replacing a value
\* that was not yet taken.
MM_first_notify ==
    /\ MM_Running
    /\ mm_first_pc = "notify"
    /\ mm_secondTaskHandle # "NULL"
    /\ mm_notified' = TRUE
    /\ mm_value' = mm_string_send
    /\ mm_heap' = [mm_heap EXCEPT ![mm_string_send].notified = TRUE]
    /\ mm_first_pc' = "print"
    /\ UNCHANGED <<mm_setup_pc, mm_second_pc, mm_secondTaskHandle, mm_serial, mm_lines_left,
                   mm_string_input, mm_idx, mm_string_send, mm_received_string, mm_first_out,
                   mm_second_out, mm_abort>>
    /\ UNCHANGED mm_rest

\* firstTask: xTaskNotify with secondTaskHandle still NULL: the kernel's
\* configASSERT(xTaskToNotify) fails (or NULL is dereferenced) and the
\* program is aborted.
MM_first_notify_null ==
    /\ MM_Running
    /\ mm_first_pc = "notify"
    /\ mm_secondTaskHandle = "NULL"
    /\ mm_abort' = "xTaskNotify(NULL)"
    /\ UNCHANGED <<mm_setup_pc, mm_first_pc, mm_second_pc, mm_secondTaskHandle, mm_serial,
                   mm_lines_left, mm_string_input, mm_idx, mm_string_send, mm_heap, mm_notified,
                   mm_value, mm_received_string, mm_first_out, mm_second_out>>
    /\ UNCHANGED mm_rest

\* firstTask: Serial.print("Update send string message: ");
\* Serial.println(string_send);
MM_first_print ==
    /\ MM_Running
    /\ mm_first_pc = "print"
    /\ mm_first_out' = "Update send string message: "
    /\ mm_first_pc' = "clear"
    /\ UNCHANGED <<mm_setup_pc, mm_second_pc, mm_secondTaskHandle, mm_serial, mm_lines_left,
                   mm_string_input, mm_idx, mm_string_send, mm_heap, mm_notified, mm_value,
                   mm_received_string, mm_second_out, mm_abort>>
    /\ UNCHANGED mm_rest

\* firstTask: memset(string_input, 0, string_len); idx = 0; string_send goes
\* out of scope.
MM_first_clear ==
    /\ MM_Running
    /\ mm_first_pc = "clear"
    /\ mm_string_input' = <<>>
    /\ mm_idx' = 0
    /\ mm_string_send' = 0
    /\ mm_first_pc' = "serial"
    /\ UNCHANGED <<mm_setup_pc, mm_second_pc, mm_secondTaskHandle, mm_serial, mm_lines_left,
                   mm_heap, mm_notified, mm_value, mm_received_string, mm_first_out,
                   mm_second_out, mm_abort>>
    /\ UNCHANGED mm_rest

\* secondTask: xTaskNotifyWait(0, 0, (uint32_t *)&received_string,
\* portMAX_DELAY) returns once a notification is pending; received_string is
\* not NULL.
MM_second_wait ==
    /\ MM_Running
    /\ mm_second_pc = "wait"
    /\ mm_notified
    /\ mm_received_string' = mm_value
    /\ mm_notified' = FALSE
    /\ mm_second_pc' = "print"
    /\ UNCHANGED <<mm_setup_pc, mm_first_pc, mm_secondTaskHandle, mm_serial, mm_lines_left,
                   mm_string_input, mm_idx, mm_string_send, mm_heap, mm_value, mm_first_out,
                   mm_second_out, mm_abort>>
    /\ UNCHANGED mm_rest

\* secondTask: Serial.print("Received string message: ");
\* Serial.println(received_string);
MM_second_print ==
    /\ MM_Running
    /\ mm_second_pc = "print"
    /\ mm_second_out' = Append(mm_second_out, mm_heap[mm_received_string].text)
    /\ mm_second_pc' = "free"
    /\ UNCHANGED <<mm_setup_pc, mm_first_pc, mm_secondTaskHandle, mm_serial, mm_lines_left,
                   mm_string_input, mm_idx, mm_string_send, mm_heap, mm_notified, mm_value,
                   mm_received_string, mm_first_out, mm_abort>>
    /\ UNCHANGED mm_rest

\* secondTask: vPortFree(received_string);
MM_second_free ==
    /\ MM_Running
    /\ mm_second_pc = "free"
    /\ mm_heap' = [mm_heap EXCEPT ![mm_received_string] = FreeBlock]
    /\ mm_second_pc' = "return"
    /\ UNCHANGED <<mm_setup_pc, mm_first_pc, mm_secondTaskHandle, mm_serial, mm_lines_left,
                   mm_string_input, mm_idx, mm_string_send, mm_notified, mm_value,
                   mm_received_string, mm_first_out, mm_second_out, mm_abort>>
    /\ UNCHANGED mm_rest

\* secondTask: the function has no loop and returns; a FreeRTOS task must not
\* return: the port logs "should not return, Aborting now!" and aborts the
\* program.
MM_second_return ==
    /\ MM_Running
    /\ mm_second_pc = "return"
    /\ mm_second_pc' = "returned"
    /\ mm_abort' = "Second Task returned"
    /\ UNCHANGED <<mm_setup_pc, mm_first_pc, mm_secondTaskHandle, mm_serial, mm_lines_left,
                   mm_string_input, mm_idx, mm_string_send, mm_heap, mm_notified, mm_value,
                   mm_received_string, mm_first_out, mm_second_out>>
    /\ UNCHANGED mm_rest

MM_Next ==
    \/ MM_setup_create_first
    \/ MM_setup_create_second
    \/ MM_type_line
    \/ MM_first_read_char
    \/ MM_first_read_newline
    \/ MM_first_malloc
    \/ MM_first_malloc_failed
    \/ MM_first_notify
    \/ MM_first_notify_null
    \/ MM_first_print
    \/ MM_first_clear
    \/ MM_second_wait
    \/ MM_second_print
    \/ MM_second_free
    \/ MM_second_return

\* ============================================== 3-task-scheduling-challenge-led

\* static const uint8_t buf_len = 20;
ts_buf_len == 20

\* The lines a user types, each ended by '\n'.
TsLines == { <<"7", "\n">>, <<"2", "5", "0", "\n">> }

TS_Off ==
    /\ ts_setup_pc = "off"
    /\ ts_toggle_pc = "off"
    /\ ts_read_pc = "off"
    /\ ts_led_delay = 500
    /\ ts_led = "LOW"
    /\ ts_high_period = 0
    /\ ts_low_period = 0
    /\ ts_serial = <<>>
    /\ ts_lines_left = 0
    /\ ts_buf = <<>>
    /\ ts_idx = 0

\* The program at reset: led_delay = 500, no task, nothing typed.
TS_Init ==
    /\ ts_setup_pc = "create_toggle"
    /\ ts_toggle_pc = "off"
    /\ ts_read_pc = "off"
    /\ ts_led_delay = 500
    /\ ts_led = "LOW"
    /\ ts_high_period = 0
    /\ ts_low_period = 0
    /\ ts_serial = <<>>
    /\ ts_lines_left = MaxTsLines
    /\ ts_buf = <<>>
    /\ ts_idx = 0

\* setup: xTaskCreatePinnedToCore(toggleLED, "Toggle LED", 1024, NULL, 1, NULL,
\* app_cpu);
TS_setup_create_toggle ==
    /\ ts_setup_pc = "create_toggle"
    /\ ts_toggle_pc' = "high"
    /\ ts_setup_pc' = "create_read"
    /\ UNCHANGED <<ts_read_pc, ts_led_delay, ts_led, ts_high_period, ts_low_period, ts_serial,
                   ts_lines_left, ts_buf, ts_idx>>
    /\ UNCHANGED ts_rest

\* setup: xTaskCreatePinnedToCore(readSerial, "Read Serial", 1024, NULL, 1,
\* NULL, app_cpu); and setup returns.
TS_setup_create_read ==
    /\ ts_setup_pc = "create_read"
    /\ ts_read_pc' = "serial"
    /\ ts_setup_pc' = "loop"
    /\ UNCHANGED <<ts_toggle_pc, ts_led_delay, ts_led, ts_high_period, ts_low_period, ts_serial,
                   ts_lines_left, ts_buf, ts_idx>>
    /\ UNCHANGED ts_rest

\* The user types one more line on the serial monitor.
TS_type_line ==
    /\ ts_serial = <<>>
    /\ ts_lines_left > 0
    /\ \E line \in TsLines : ts_serial' = line
    /\ ts_lines_left' = ts_lines_left - 1
    /\ UNCHANGED <<ts_setup_pc, ts_toggle_pc, ts_read_pc, ts_led_delay, ts_led, ts_high_period,
                   ts_low_period, ts_buf, ts_idx>>
    /\ UNCHANGED ts_rest

\* toggleLED: digitalWrite(led_pin, HIGH);
TS_toggle_high ==
    /\ ts_toggle_pc = "high"
    /\ ts_led' = "HIGH"
    /\ ts_toggle_pc' = "delay_high"
    /\ UNCHANGED <<ts_setup_pc, ts_read_pc, ts_led_delay, ts_high_period, ts_low_period,
                   ts_serial, ts_lines_left, ts_buf, ts_idx>>
    /\ UNCHANGED ts_rest

\* toggleLED: vTaskDelay(led_delay / portTICK_PERIOD_MS); the global is read.
TS_toggle_delay_high ==
    /\ ts_toggle_pc = "delay_high"
    /\ ts_high_period' = ts_led_delay
    /\ ts_toggle_pc' = "low"
    /\ UNCHANGED <<ts_setup_pc, ts_read_pc, ts_led_delay, ts_led, ts_low_period, ts_serial,
                   ts_lines_left, ts_buf, ts_idx>>
    /\ UNCHANGED ts_rest

\* toggleLED: digitalWrite(led_pin, LOW);
TS_toggle_low ==
    /\ ts_toggle_pc = "low"
    /\ ts_led' = "LOW"
    /\ ts_toggle_pc' = "delay_low"
    /\ UNCHANGED <<ts_setup_pc, ts_read_pc, ts_led_delay, ts_high_period, ts_low_period,
                   ts_serial, ts_lines_left, ts_buf, ts_idx>>
    /\ UNCHANGED ts_rest

\* toggleLED: vTaskDelay(led_delay / portTICK_PERIOD_MS); the global is read
\* again.
TS_toggle_delay_low ==
    /\ ts_toggle_pc = "delay_low"
    /\ ts_low_period' = ts_led_delay
    /\ ts_toggle_pc' = "high"
    /\ UNCHANGED <<ts_setup_pc, ts_read_pc, ts_led_delay, ts_led, ts_high_period, ts_serial,
                   ts_lines_left, ts_buf, ts_idx>>
    /\ UNCHANGED ts_rest

\* readSerial: c = Serial.read(); c is not '\n': it is appended to buf when
\* idx < buf_len - 1, else dropped.
TS_read_char ==
    /\ ts_read_pc = "serial"
    /\ ts_serial # <<>>
    /\ Head(ts_serial) # "\n"
    /\ ts_serial' = Tail(ts_serial)
    /\ IF ts_idx < ts_buf_len - 1
       THEN ts_buf' = Append(ts_buf, Head(ts_serial)) /\ ts_idx' = ts_idx + 1
       ELSE UNCHANGED <<ts_buf, ts_idx>>
    /\ UNCHANGED <<ts_setup_pc, ts_toggle_pc, ts_read_pc, ts_led_delay, ts_led, ts_high_period,
                   ts_low_period, ts_lines_left>>
    /\ UNCHANGED ts_rest

\* readSerial: c = Serial.read(); c is '\n': next is the write of led_delay.
TS_read_newline ==
    /\ ts_read_pc = "serial"
    /\ ts_serial # <<>>
    /\ Head(ts_serial) = "\n"
    /\ ts_serial' = Tail(ts_serial)
    /\ ts_read_pc' = "update"
    /\ UNCHANGED <<ts_setup_pc, ts_toggle_pc, ts_led_delay, ts_led, ts_high_period,
                   ts_low_period, ts_lines_left, ts_buf, ts_idx>>
    /\ UNCHANGED ts_rest

\* readSerial: led_delay = atoi(buf); the global is written; the value is
\* printed; memset(buf, 0, buf_len); idx = 0;
TS_read_update ==
    /\ ts_read_pc = "update"
    /\ ts_led_delay' = atoi(ts_buf)
    /\ ts_buf' = <<>>
    /\ ts_idx' = 0
    /\ ts_read_pc' = "serial"
    /\ UNCHANGED <<ts_setup_pc, ts_toggle_pc, ts_led, ts_high_period, ts_low_period, ts_serial,
                   ts_lines_left>>
    /\ UNCHANGED ts_rest

TS_Next ==
    \/ TS_setup_create_toggle
    \/ TS_setup_create_read
    \/ TS_type_line
    \/ TS_toggle_high
    \/ TS_toggle_delay_high
    \/ TS_toggle_low
    \/ TS_toggle_delay_low
    \/ TS_read_char
    \/ TS_read_newline
    \/ TS_read_update

\* A task of this program holds a lock while it accesses led_delay: never,
\* the file creates no mutex, semaphore or queue.
TS_HoldsLock == FALSE

\* ========================================================== 7-semaphore-binary

SB_Off ==
    /\ sb_setup_pc = "off"
    /\ sb_blink_pc = "off"
    /\ sb_bin_sem = NULL
    /\ sb_delay_arg = 0
    /\ sb_sent = 0
    /\ sb_num = -1
    /\ sb_led = "LOW"

\* The program at reset: setup() is about to read the number; its local
\* delay_arg is uninitialised (any value); bin_sem is NULL.
SB_Init ==
    /\ sb_setup_pc = "read"
    /\ sb_blink_pc = "off"
    /\ sb_bin_sem = NULL
    /\ sb_delay_arg \in DelayArgs
    /\ sb_sent = 0
    /\ sb_num = -1
    /\ sb_led = "LOW"

\* setup: delay_arg = Serial.parseInt(); print "Sending: ".
SB_setup_read ==
    /\ sb_setup_pc = "read"
    /\ \E v \in DelayArgs :
        /\ sb_delay_arg' = v
        /\ sb_sent' = v
    /\ sb_setup_pc' = "create_sem"
    /\ UNCHANGED <<sb_blink_pc, sb_bin_sem, sb_num, sb_led>>
    /\ UNCHANGED sb_rest

\* setup: bin_sem = xSemaphoreCreateBinary();
SB_setup_create_sem ==
    /\ sb_setup_pc = "create_sem"
    /\ sb_bin_sem' = xSemaphoreCreateBinary
    /\ sb_setup_pc' = "create_task"
    /\ UNCHANGED <<sb_blink_pc, sb_delay_arg, sb_sent, sb_num, sb_led>>
    /\ UNCHANGED sb_rest

\* setup: xTaskCreatePinnedToCore(blinkLED, ..., (void *)&delay_arg, 1, ...)
SB_setup_create_task ==
    /\ sb_setup_pc = "create_task"
    /\ sb_blink_pc' = "copy"
    /\ sb_setup_pc' = "take"
    /\ UNCHANGED <<sb_bin_sem, sb_delay_arg, sb_sent, sb_num, sb_led>>
    /\ UNCHANGED sb_rest

\* A mutant of SB_setup_take: the take does not wait for the semaphore
\* (a timeout of 0 whose result is ignored).
SB_setup_take_no_wait ==
    /\ sb_setup_pc = "take"
    /\ sb_bin_sem' = IF SemAvailable(sb_bin_sem) THEN SemTaken(sb_bin_sem, "none") ELSE sb_bin_sem
    /\ sb_setup_pc' = "print_done"
    /\ UNCHANGED <<sb_blink_pc, sb_delay_arg, sb_sent, sb_num, sb_led>>
    /\ UNCHANGED sb_rest

\* setup: xSemaphoreTake(bin_sem, portMAX_DELAY): setup stays blocked here
\* until the semaphore has been given.
SB_setup_take ==
    /\ sb_setup_pc = "take"
    /\ SemAvailable(sb_bin_sem)
    /\ sb_bin_sem' = SemTaken(sb_bin_sem, "none")
    /\ sb_setup_pc' = "print_done"
    /\ UNCHANGED <<sb_blink_pc, sb_delay_arg, sb_sent, sb_num, sb_led>>
    /\ UNCHANGED sb_rest

\* setup: Serial.println("Done!"); and return: the stack frame is released.
SB_setup_return ==
    /\ sb_setup_pc = "print_done"
    /\ sb_setup_pc' = "loop"
    /\ UNCHANGED <<sb_blink_pc, sb_bin_sem, sb_delay_arg, sb_sent, sb_num, sb_led>>
    /\ UNCHANGED sb_rest

\* loop(): vTaskDelay(1000 / portTICK_PERIOD_MS); the calls made after setup
\* returned reuse its stack, so the slot that held delay_arg may now hold
\* anything.
SB_loop ==
    /\ sb_setup_pc = "loop"
    /\ \E v \in DelayArgs : sb_delay_arg' = v
    /\ UNCHANGED <<sb_setup_pc, sb_blink_pc, sb_bin_sem, sb_sent, sb_num, sb_led>>
    /\ UNCHANGED sb_rest

\* blinkLED: int num = *(int *)parameters;  (reads whatever the slot holds;
\* delay_arg is a long int, which has the size and representation of int on
\* the 32-bit target)
SB_blink_copy ==
    /\ sb_blink_pc = "copy"
    /\ sb_num' = sb_delay_arg
    /\ sb_blink_pc' = "give"
    /\ UNCHANGED <<sb_setup_pc, sb_bin_sem, sb_delay_arg, sb_sent, sb_led>>
    /\ UNCHANGED sb_rest

\* blinkLED: xSemaphoreGive(bin_sem);
SB_blink_give ==
    /\ sb_blink_pc = "give"
    /\ sb_bin_sem' = SemGiven(sb_bin_sem)
    /\ sb_blink_pc' = "print"
    /\ UNCHANGED <<sb_setup_pc, sb_delay_arg, sb_sent, sb_num, sb_led>>
    /\ UNCHANGED sb_rest

\* blinkLED: Serial.print("Received: "); Serial.println(num); pinMode(...)
SB_blink_print ==
    /\ sb_blink_pc = "print"
    /\ sb_blink_pc' = "high"
    /\ UNCHANGED <<sb_setup_pc, sb_bin_sem, sb_delay_arg, sb_sent, sb_num, sb_led>>
    /\ UNCHANGED sb_rest

\* blinkLED: digitalWrite(led_pin, HIGH); vTaskDelay(num / portTICK_PERIOD_MS);
SB_blink_high ==
    /\ sb_blink_pc = "high"
    /\ sb_led' = "HIGH"
    /\ sb_blink_pc' = "low"
    /\ UNCHANGED <<sb_setup_pc, sb_bin_sem, sb_delay_arg, sb_sent, sb_num>>
    /\ UNCHANGED sb_rest

\* blinkLED: digitalWrite(led_pin, LOW); vTaskDelay(num / portTICK_PERIOD_MS);
SB_blink_low ==
    /\ sb_blink_pc = "low"
    /\ sb_led' = "LOW"
    /\ sb_blink_pc' = "high"
    /\ UNCHANGED <<sb_setup_pc, sb_bin_sem, sb_delay_arg, sb_sent, sb_num>>
    /\ UNCHANGED sb_rest

SB_Next ==
    \/ SB_setup_read
    \/ SB_setup_create_sem
    \/ SB_setup_create_task
    \/ SB_setup_take
    \/ SB_setup_return
    \/ SB_loop
    \/ SB_blink_copy
    \/ SB_blink_give
    \/ SB_blink_print
    \/ SB_blink_high
    \/ SB_blink_low

\* ========================================================== specifications

\* Each program alone; the other programs are not running.
InitMutexChallenge == MC_Init /\ M6_Off /\ Q5_Off /\ QC_Off /\ SC_Off /\ CS_Off /\ IS_Off /\ MM_Off /\ TS_Off /\ SB_Off
SpecMutexChallenge == InitMutexChallenge /\ [][MC_Next]_vars

InitMutex == M6_Init /\ MC_Off /\ Q5_Off /\ QC_Off /\ SC_Off /\ CS_Off /\ IS_Off /\ MM_Off /\ TS_Off /\ SB_Off
SpecMutex == InitMutex /\ [][M6_Next]_vars

InitQueue == Q5_Init /\ MC_Off /\ M6_Off /\ QC_Off /\ SC_Off /\ CS_Off /\ IS_Off /\ MM_Off /\ TS_Off /\ SB_Off
SpecQueue == InitQueue /\ [][Q5_Next]_vars

InitQueueChallenge == (QC_Init \/ QC_InitBlinked) /\ MC_Off /\ M6_Off /\ Q5_Off /\ SC_Off /\ CS_Off /\ IS_Off /\ MM_Off /\ TS_Off /\ SB_Off
SpecQueueChallenge == InitQueueChallenge /\ [][QC_Next]_vars

\* The queue challenge with nothing typed, explored for the blinks that the
\* initial state QC_InitBlinked skips.
QC_InitIdle ==
    /\ qc_setup_pc = "create_delay_queue"
    /\ qc_cli_pc = "off"
    /\ qc_blink_pc = "off"
    /\ qc_delay_queue = NullQueue
    /\ qc_msg_queue = NullQueue
    /\ qc_serial = <<>>
    /\ qc_lines_left = 0
    /\ qc_blinks_left = blink_max - MaxBlinks
    /\ qc_buf = <<>>
    /\ qc_idx = 0
    /\ qc_cli_delay = 0
    /\ qc_received = NoMessage
    /\ qc_led_delay = 500
    /\ qc_counter = 0
    /\ qc_msg = NoMessage
    /\ qc_half_period = 0

InitQueueChallengeIdle == QC_InitIdle /\ MC_Off /\ M6_Off /\ Q5_Off /\ SC_Off /\ CS_Off /\ IS_Off /\ MM_Off /\ TS_Off /\ SB_Off
SpecQueueChallengeIdle == InitQueueChallengeIdle /\ [][QC_Next]_vars

\* The program state of QC_InitBlinked; SpecQueueChallengeIdle reaches it
\* (its negation is violated), so QC_InitBlinked is a state of the program.
QC_BlinkedState ==
    /\ qc_setup_pc = "deleted"
    /\ qc_cli_pc = "receive"
    /\ qc_blink_pc = "receive"
    /\ qc_delay_queue = xQueueCreate(delay_queue_len)
    /\ qc_msg_queue = xQueueCreate(msg_queue_len)
    /\ qc_serial = <<>>
    /\ qc_buf = <<>>
    /\ qc_idx = 0
    /\ qc_cli_delay = 0
    /\ qc_received = NoMessage
    /\ qc_led_delay = 500
    /\ qc_counter = blink_max - MaxBlinks
    /\ qc_msg = NoMessage
    /\ qc_half_period = 500

InitSemaphoreCounting == SC_Init /\ MC_Off /\ M6_Off /\ Q5_Off /\ QC_Off /\ CS_Off /\ IS_Off /\ MM_Off /\ TS_Off /\ SB_Off
SpecSemaphoreCounting == InitSemaphoreCounting /\ [][SC_Next]_vars

InitCriticalSection == CS_Init /\ MC_Off /\ M6_Off /\ Q5_Off /\ QC_Off /\ SC_Off /\ IS_Off /\ MM_Off /\ TS_Off /\ SB_Off
SpecCriticalSection == InitCriticalSection /\ [][CS_Next]_vars

InitIsrSemaphore == IS_Init /\ MC_Off /\ M6_Off /\ Q5_Off /\ QC_Off /\ SC_Off /\ CS_Off /\ MM_Off /\ TS_Off /\ SB_Off
SpecIsrSemaphore == InitIsrSemaphore /\ [][IS_Next]_vars

\* Both interrupt demos:
InitInterrupts == InitCriticalSection \/ InitIsrSemaphore
NextInterrupts == CS_Next \/ IS_Next
SpecInterrupts == InitInterrupts /\ [][NextInterrupts]_vars

\* The queue challenge, also started with a command line already typed.
InitQueueChallengeCommands ==
    (QC_Init \/ QC_InitBlinked \/ QC_InitCommand)
        /\ MC_Off /\ M6_Off /\ Q5_Off /\ SC_Off /\ CS_Off /\ IS_Off /\ MM_Off /\ TS_Off /\ SB_Off
SpecQueueChallengeCommands == InitQueueChallengeCommands /\ [][QC_Next]_vars

\* The queue challenge, also started with typed input waiting.
InitQueueChallengeTyped ==
    (QC_Init \/ QC_InitBlinked \/ QC_InitTyped)
        /\ MC_Off /\ M6_Off /\ Q5_Off /\ SC_Off /\ CS_Off /\ IS_Off /\ MM_Off /\ TS_Off /\ SB_Off
SpecQueueChallengeTyped == InitQueueChallengeTyped /\ [][QC_Next]_vars

InitMemoryChallenge ==
    MM_Init /\ MC_Off /\ M6_Off /\ Q5_Off /\ QC_Off /\ SC_Off /\ CS_Off /\ IS_Off /\ TS_Off /\ SB_Off
SpecMemoryChallenge == InitMemoryChallenge /\ [][MM_Next]_vars

\* The programs that hand a handle from setup to a task or an ISR: the
\* ISR-semaphore demo, the queue challenge and the memory challenge.
InitHandles == InitIsrSemaphore \/ InitQueueChallenge \/ InitMemoryChallenge
NextHandles == IS_Next \/ QC_Next \/ MM_Next
SpecHandles == InitHandles /\ [][NextHandles]_vars

InitLedChallenge ==
    TS_Init /\ MC_Off /\ M6_Off /\ Q5_Off /\ QC_Off /\ SC_Off /\ CS_Off /\ IS_Off /\ MM_Off /\ SB_Off
SpecLedChallenge == InitLedChallenge /\ [][TS_Next]_vars

\* The programs in which one task sets the LED delay rate of another: the
\* LED challenge and the queue challenge.
InitRate == InitLedChallenge \/ InitQueueChallenge
NextRate == TS_Next \/ QC_Next
SpecRate == InitRate /\ [][NextRate]_vars

InitSemaphoreBinary ==
    SB_Init /\ MC_Off /\ M6_Off /\ Q5_Off /\ QC_Off /\ SC_Off /\ CS_Off /\ IS_Off /\ MM_Off /\ TS_Off
SpecSemaphoreBinary == InitSemaphoreBinary /\ [][SB_Next]_vars

\* Both mutex programs: whichever of the two is running.
InitMutexes == InitMutex \/ InitMutexChallenge
NextMutexes == M6_Next \/ MC_Next
SpecMutexes == InitMutexes /\ [][NextMutexes]_vars

\* The programs whose loop() carries the comment that execution never gets
\* there: whichever of them is running.
InitLaunch ==
    InitQueueChallenge \/ InitLedChallenge \/ InitMemoryChallenge \/ InitMutex
        \/ InitCriticalSection
NextLaunch == QC_Next \/ TS_Next \/ MM_Next \/ M6_Next \/ CS_Next
SpecLaunch == InitLaunch /\ [][NextLaunch]_vars

\* The programs that have a Message: either the counting-semaphore demo or
\* the queue challenge runs.
InitMessages == InitSemaphoreCounting \/ InitQueueChallenge
NextMessages == SC_Next \/ QC_Next
SpecMessages == InitMessages /\ [][NextMessages]_vars

\* The mutex demo without end under weakly fair scheduling: the setup task
\* and the two incTask instances have priority 1 on the same core and are
\* time-sliced, so each of them that can take a step gets the processor.
FairMutex ==
    /\ WF_vars(M6_Setup)
    /\ \A i \in IncTasks : WF_vars(M6_Task(i))
SpecMutexFair == InitMutex /\ [][M6_Unbounded_Next]_vars /\ FairMutex

\* The steps of the setup-and-loop task and of blinkLED in the two programs
\* that hand an argument to a new task.
MC_Setup ==
    \/ MC_setup_read
    \/ MC_setup_create_mutex
    \/ MC_setup_take1
    \/ MC_setup_create_task
    \/ MC_setup_take2
    \/ MC_setup_return
    \/ MC_loop
MC_Blink ==
    \/ MC_blink_copy
    \/ MC_blink_give
    \/ MC_blink_print
    \/ MC_blink_high
    \/ MC_blink_low
SB_Setup ==
    \/ SB_setup_read
    \/ SB_setup_create_sem
    \/ SB_setup_create_task
    \/ SB_setup_take
    \/ SB_setup_return
    \/ SB_loop
SB_Blink ==
    \/ SB_blink_copy
    \/ SB_blink_give
    \/ SB_blink_print
    \/ SB_blink_high
    \/ SB_blink_low

\* Both handoff programs under fair scheduling: the setup-and-loop task and
\* blinkLED have priority 1 on the same core and are time-sliced, and setup
\* blocked in xSemaphoreTake leaves the processor to blinkLED.
InitHandoffs == InitMutexChallenge \/ InitSemaphoreBinary
NextHandoffs == MC_Next \/ SB_Next
FairHandoffs ==
    /\ WF_vars(MC_Setup)
    /\ WF_vars(MC_Blink)
    /\ WF_vars(SB_Setup)
    /\ WF_vars(SB_Blink)
SpecHandoffsFair == InitHandoffs /\ [][NextHandoffs]_vars /\ FairHandoffs

\* Both queue programs: either the queue demo or the queue challenge runs.
InitQueues == InitQueue \/ InitQueueChallenge
NextQueues == Q5_Next \/ QC_Next
SpecQueues == InitQueues /\ [][NextQueues]_vars

\* The counting-semaphore demo under fair scheduling: while some myTask
\* instance can take a step, the processor is not given to setup and loop()
\* alone forever (equal priorities, time-sliced; vTaskDelay ends after its
\* 1000 ms).
FairSemaphoreCounting == WF_vars(\E t \in ScTasks : SC_Task(t))
SpecSemaphoreCountingFair ==
    InitSemaphoreCounting /\ [][SC_Next]_vars /\ FairSemaphoreCounting

\* The steps of the setup task, of doCLI and of blinkLED in the queue
\* challenge.
QC_Setup ==
    \/ QC_setup_create_delay_queue
    \/ QC_setup_create_msg_queue
    \/ QC_setup_create_cli
    \/ QC_setup_create_blink
    \/ QC_setup_delete
QC_Cli ==
    \/ QC_cli_receive
    \/ QC_cli_receive_empty
    \/ QC_cli_no_input
    \/ QC_cli_read_char
    \/ QC_cli_read_command
    \/ QC_cli_read_other
    \/ QC_cli_send
    \/ QC_cli_send_block
    \/ QC_cli_send_wake
    \/ QC_cli_send_timeout
QC_Blink ==
    \/ QC_blink_receive
    \/ QC_blink_receive_empty
    \/ QC_blink_send_received
    \/ QC_blink_send_received_block
    \/ QC_blink_send_received_wake
    \/ QC_blink_send_received_timeout
    \/ QC_blink_blink
    \/ QC_blink_blink_max
    \/ QC_blink_send_blinked
    \/ QC_blink_send_blinked_block
    \/ QC_blink_send_blinked_wake
    \/ QC_blink_send_blinked_timeout

\* The queue challenge under fair scheduling: the setup task, doCLI and
\* blinkLED all have priority 1 on the same core and are time-sliced, so a
\* task that can take a step gets the processor; a blocked xQueueSend can
\* always take one, since its 10 ticks run out.
FairQueueChallenge ==
    /\ WF_vars(QC_Setup)
    /\ WF_vars(QC_Cli)
    /\ WF_vars(QC_Blink)
SpecQueueChallengeFair == InitQueueChallenge /\ [][QC_Next]_vars /\ FairQueueChallenge

\* Both queue programs with the scheduler's fairness towards a sender that
\* was made ready: a task whose blocked xQueueSend can complete is given the
\* processor (the tasks have equal priority and are time-sliced).
FairQueues ==
    /\ WF_vars(Q5_loop_send_wake)
    /\ WF_vars(QC_cli_send_wake)
    /\ WF_vars(QC_blink_send_received_wake)
    /\ WF_vars(QC_blink_send_blinked_wake)
SpecQueuesFair == InitQueues /\ [][NextQueues]_vars /\ FairQueues

\* ================================================================== claims

\* C1: setup's second xSemaphoreTake does not return (so setup neither prints
\* "Done!" nor returns) before blinkLED has copied *parameters into num and
\* given the mutex, and once blinkLED has made its copy num equals the value
\* setup read, whatever happens to setup's stack slot afterwards.
C1_HandoffBeforeReturn ==
    /\ mc_setup_pc \in {"print_done", "loop"} => mc_blink_pc \in {"print", "high", "low"}
    /\ mc_blink_pc \in {"give", "print", "high", "low"} => mc_num = mc_sent

\* C1 witness: setup has returned, its stack slot was overwritten with
\* another value, and blinkLED blinks with the value that was sent.
C1_Witness ==
    /\ mc_setup_pc = "loop"
    /\ mc_delay_arg # mc_sent
    /\ mc_blink_pc = "low"
    /\ mc_num = mc_sent

\* C2: the two incTask instances are never both between a successful
\* xSemaphoreTake(mutex, 0) and the matching xSemaphoreGive(mutex), and while
\* one of them is there (also while it is suspended in vTaskDelay) the mutex
\* has no token, so the other's take fails.
C2_MutualExclusion ==
    /\ Cardinality(M6_InCritical) <= 1
    /\ M6_InCritical # {} => ~SemAvailable(m6_mutex)

\* C2 witness: one task is suspended in vTaskDelay inside the critical
\* section while the other is at its xSemaphoreTake, which cannot succeed.
C2_Witness ==
    /\ m6_pc[1] = "delay"
    /\ m6_pc[2] = "take"
    /\ ~SemAvailable(m6_mutex)

\* C3: shared_var always equals the number of increments completed (stores
\* of a critical section's result) by both tasks, the values printed are
\* exactly 1, 2, 3, ... in this order, and whenever no task is in its critical
\* section every completed critical section has printed its own value.
C3_NoLostUpdate ==
    /\ m6_shared_var = m6_stores
    /\ \A k \in 1..Len(m6_printed) : m6_printed[k] = k
    /\ M6_InCritical = {} => Len(m6_printed) = m6_shared_var

\* C3 witness: both tasks have completed critical sections and the output
\* so far is 1, 2, 3.
C3_Witness ==
    /\ m6_printed = <<1, 2, 3>>
    /\ m6_local_var[1] > 0
    /\ m6_local_var[2] > 0
    /\ m6_local_var[1] # m6_local_var[2]

\* The queues of the two queue programs with the length each was created with.
Channels == <<
    [queue |-> q5_msg_queue, created |-> q5_loop_pc \notin {"off", "create_queue"},
     N |-> q5_msg_queue_len],
    [queue |-> qc_delay_queue, created |-> qc_setup_pc \notin {"off", "create_delay_queue"},
     N |-> delay_queue_len],
    [queue |-> qc_msg_queue,
     created |-> qc_setup_pc \notin {"off", "create_delay_queue", "create_msg_queue"},
     N |-> msg_queue_len] >>

\* C4: every queue holds between 0 and N items in every reachable state,
\* where N is the length it was created with (5 for msg_queue and for
\* delay_queue), and from its creation on its length is N.
C4_OccupancyBound ==
    \A k \in 1..Len(Channels) :
        LET ch == Channels[k] IN
        /\ 0 <= Len(ch.queue.items)
        /\ Len(ch.queue.items) <= ch.queue.uxLength
        /\ ch.created => ch.queue.uxLength = ch.N
        /\ ch.N = 5

\* C4 witness: delay_queue holds N items and doCLI is blocked in a further
\* send, while msg_queue holds items as well.
C4_Witness ==
    /\ Len(qc_delay_queue.items) = delay_queue_len
    /\ qc_cli_pc = "send_blocked"
    /\ Len(qc_msg_queue.items) > 0

\* C5: what printMessages has received so far, followed by what is still
\* queued, is exactly what loop() has successfully sent, in the order sent;
\* so every item received was sent earlier, items arrive in the order sent,
\* and none arrives twice.
C5_Fifo ==
    /\ q5_printed \o q5_msg_queue.items = q5_sent
    /\ \A i, j \in 1..Len(q5_printed) : i < j => q5_printed[i] < q5_printed[j]
    /\ q5_print_pc = "delay" /\ q5_printed # <<>> => q5_item = q5_printed[Len(q5_printed)]

\* C5 witness: several items were received while others were still queued
\* behind them, and a send had been dropped in between.
C5_Witness ==
    /\ Len(q5_printed) >= 3
    /\ Len(q5_msg_queue.items) >= 2
    /\ q5_full # <<>>

C7_CountingBound ==
    [][/\ sc_sem_params' # NULL =>
            /\ sc_sem_params'.uxLength = num_tasks
            /\ sc_sem_params'.uxMessagesWaiting >= 0
            /\ sc_sem_params'.uxMessagesWaiting <= num_tasks
       /\ \A t \in ScTasks :
            (sc_pc[t] = "give" /\ sc_pc'[t] = "print") =>
                IF sc_sem_params.uxMessagesWaiting = num_tasks
                THEN sc_sem_params' = sc_sem_params
                ELSE sc_sem_params'.uxMessagesWaiting = sc_sem_params.uxMessagesWaiting + 1
       /\ (sc_setup_pc = "take" /\ sc_i' = sc_i + 1) =>
            /\ sc_sem_params.uxMessagesWaiting > 0
            /\ sc_sem_params'.uxMessagesWaiting = sc_sem_params.uxMessagesWaiting - 1]_vars

\* A give was made while the count was already at the maximum.
C7_Witness ==
    /\ sc_sem_params # NULL
    /\ sc_sem_params.uxMessagesWaiting = num_tasks
    /\ \E t \in ScTasks : sc_given[t] = "errQUEUE_FULL"

\* C8 (fan-in barrier), as the specification states it: once setup has left
\* its loop of takes, every myTask instance it created has copied *parameters
\* into its local msg.  The source does not satisfy this: setup creates
\* num_tasks + 1 tasks and takes num_tasks times.
C8_FanInBarrier ==
    sc_setup_pc = "loop" =>
        \A t \in ScTasks : sc_pc[t] # "off" => sc_pc[t] # "copy"

\* C9 (interrupt-latch counting): in every reachable state of the
\* critical-section demo isr_counter equals the number of onTimer firings
\* minus the number of decrements printValues has made, whatever the
\* interleaving of firings with the drain loop; the value printValues loaded
\* for a decrement is still the counter's value when it stores, so each
\* decrement takes exactly one off and no firing is lost or counted twice.
C9_LatchCounting ==
    /\ cs_isr_counter = cs_fired - cs_decs
    /\ cs_task_pc = "dec_store" => cs_reg = cs_isr_counter

\* Three firings were latched while printValues was delayed, and the task
\* drained them one at a time: it printed 3, 2, 1 and the counter is back at 0.
C9_Witness ==
    /\ cs_printed = <<3, 2, 1>>
    /\ cs_fired = 3
    /\ cs_decs = 3
    /\ cs_isr_counter = 0

\* C10 (task-side critical-section discipline), as the specification states
\* it: every step in which task code reads or writes a variable that an ISR
\* also writes (isr_counter in the critical-section demo, val in the
\* ISR-semaphore demo) is taken while the task is inside its critical
\* section.  The source does not satisfy this: printValues tests and prints
\* isr_counter before portENTER_CRITICAL, and the ISR-semaphore demo prints
\* val with no critical section at all.
C10_TaskAccessInCritical ==
    [][/\ (cs_task_pc \in {"test", "print", "dec_load", "dec_store"} /\ cs_task_pc' # cs_task_pc)
            => CS_TaskInCritical
       /\ (is_task_pc = "print" /\ is_task_pc' # is_task_pc)
            => IS_TaskInCritical]_vars

\* C11 (command parsing), as the specification states it: every line
\* "delay <n>" (n a non-negative int) ended by '\n' or '\r' puts exactly one
\* integer n on delay_queue.  This fails when delay_queue is full and stays
\* full for the 10 ticks of the send: the value is dropped.
C11_AlwaysDelivered ==
    [][\A c \in CommandTexts, t \in {"\n", "\r"} :
            (/\ c.n >= 0
             /\ qc_buf = command \o c.text \o <<t>>
             /\ qc_cli_pc \in {"send", "send_blocked"}
             /\ qc_cli_pc' = "receive")
            => qc_delay_queue'.items = Append(qc_delay_queue.items, c.n)]_vars

\* C11 (command parsing), amended: when doCLI has handled a line "delay <n>"
\* (n a non-negative int) ended by '\n' or '\r', exactly one integer n has
\* been appended to delay_queue if the queue had room within the 10 ticks of
\* the send, and nothing has been appended if it stayed full; no other step
\* adds to delay_queue.  When blinkLED consumes an item, led_delay becomes that
\* item, keeps it until the blink of the same cycle, and both vTaskDelay
\* calls of that blink use it.
C11_CommandDelivered ==
    [][/\ \A c \in CommandTexts, t \in {"\n", "\r"} :
            (/\ c.n >= 0
             /\ qc_buf = command \o c.text \o <<t>>
             /\ qc_cli_pc \in {"send", "send_blocked"}
             /\ qc_cli_pc' = "receive")
            => IF Len(qc_delay_queue.items) < delay_queue_len
               THEN qc_delay_queue'.items = Append(qc_delay_queue.items, c.n)
               ELSE qc_delay_queue' = qc_delay_queue
       /\ Len(qc_delay_queue'.items) > Len(qc_delay_queue.items)
            => qc_cli_pc \in {"send", "send_blocked"} /\ qc_cli_pc' = "receive"
       /\ (qc_blink_pc = "receive" /\ qc_blink_pc' = "send_received")
            => /\ qc_led_delay' = Head(qc_delay_queue.items)
               /\ qc_delay_queue'.items = Tail(qc_delay_queue.items)
       /\ qc_blink_pc \in {"send_received", "send_received_blocked"}
            => qc_led_delay' = qc_led_delay
       /\ (qc_blink_pc = "blink" /\ qc_blink_pc' # "blink")
            => qc_half_period' = qc_led_delay /\ qc_led_delay' = qc_led_delay]_vars

\* "delay 250" was typed, delivered and consumed, and the blink that followed
\* used 250 for its half-period.
C11_Witness ==
    /\ qc_half_period = 250
    /\ qc_led_delay = 250
    /\ qc_delay_queue.items = <<>>
    /\ qc_blink_pc = "receive"

\* C12 (non-negative rate), as the specification states it: every integer
\* doCLI sends on delay_queue is >= 0, whatever 32-bit value the text after
\* "delay " parses to.  The source does not satisfy this for the most
\* negative int: atoi returns INT_MIN and abs(INT_MIN) is INT_MIN again.
C12_NonNegativeRate ==
    /\ qc_cli_pc \in {"send", "send_blocked"} => qc_cli_delay >= 0
    /\ \A i \in 1..Len(qc_delay_queue.items) : qc_delay_queue.items[i] >= 0

\* C13 (initialization order), as the specification states it: no task or
\* ISR is at an operation on a handle that is still NULL: the queues of the
\* queue challenge exist once doCLI or blinkLED can run, bin_sem exists once
\* printValues or onTimer can run, and secondTaskHandle is assigned when
\* firstTask calls xTaskNotify.  The memory challenge does not satisfy this:
\* setup starts firstTask before it creates secondTask.
C13_HandlesBeforeUse ==
    /\ (qc_cli_pc # "off" \/ qc_blink_pc # "off")
            => qc_delay_queue.uxLength > 0 /\ qc_msg_queue.uxLength > 0
    /\ (is_task_pc # "off" \/ is_timer = "enabled") => is_bin_sem # NULL
    /\ mm_first_pc = "notify" => mm_secondTaskHandle # "NULL"

\* C14 (shared delay rate discipline), as the specification states it: the
\* LED delay rate is never written by one task while another task is at a
\* read of it unless they hold a lock, and otherwise changes only by taking
\* a message from a channel.  The LED challenge does not satisfy this:
\* led_delay is a plain global that readSerial writes and toggleLED reads.
C14_RateDiscipline ==
    [][/\ (ts_read_pc = "update" /\ ts_toggle_pc \in {"delay_high", "delay_low"})
            => TS_HoldsLock
       /\ qc_led_delay' # qc_led_delay
            => /\ qc_blink_pc = "receive"
               /\ qc_delay_queue.items # <<>>
               /\ qc_led_delay' = Head(qc_delay_queue.items)]_vars

\* C15 (ISR contract of the ISR-semaphore demo): every run of onTimer makes
\* exactly one give on bin_sem and completes whatever the state of bin_sem
\* (a give on a full semaphore changes nothing); when the give wakes
\* printValues (priority 2, blocked on bin_sem) the handler yields, so that
\* printValues has the processor when the handler returns; and no step of the
\* priority-1 "setup and loop" task is taken while printValues is ready.
C15_IsrContract ==
    [][/\ is_fired' = is_fired + 1
            => /\ is_bin_sem' = SemGiven(is_bin_sem)
               /\ is_setup_pc' = is_setup_pc /\ is_loops' = is_loops
               /\ is_task_pc = "blocked"
                    => /\ is_task_pc' = "take"
                       /\ is_running' = "printValues"
                       /\ SemAvailable(is_bin_sem')
       /\ (is_setup_pc' # is_setup_pc \/ is_loops' # is_loops)
            => ~IS_TaskReady]_vars

\* loop() was running when a firing of onTimer woke printValues: the task
\* has the processor, with bin_sem given and the value latched.
C15_Witness ==
    /\ is_setup_pc = "loop"
    /\ is_loops > 0
    /\ is_fired > 0
    /\ is_running = "printValues"
    /\ is_task_pc = "take"
    /\ SemAvailable(is_bin_sem)

\* The positions of the endless loops of the tasks of the two queue programs.
Q5_LoopPositions == {"send", "send_blocked", "inc", "delay"}
Q5_PrintPositions == {"receive", "delay"}
QC_CliPositions == {"receive", "serial", "send", "send_blocked"}
QC_BlinkPositions ==
    {"receive", "send_received", "send_received_blocked", "blink", "send_blinked",
     "send_blinked_blocked"}

\* C16 (recoverable failures): in both queue programs a queue operation that
\* fails (a send that gives up after its 10 ticks with the queue still full,
\* a receive with timeout 0 on an empty queue) takes its task to the next
\* statement of its loop and touches no other task; and a task that has
\* entered its loop never leaves it: no step stops, deletes or restarts
\* loop(), printMessages, doCLI or blinkLED.
C16_RecoverableFailures ==
    [][/\ (q5_loop_pc = "send_blocked" /\ q5_loop_pc' # "send_blocked"
              /\ q5_msg_queue' = q5_msg_queue)
            => q5_loop_pc' = "inc" /\ q5_print_pc' = q5_print_pc
       /\ (q5_print_pc = "receive" /\ q5_print_pc' # "receive" /\ QueueEmpty(q5_msg_queue))
            => q5_print_pc' = "delay" /\ q5_loop_pc' = q5_loop_pc
       /\ (qc_cli_pc = "receive" /\ qc_cli_pc' # "receive" /\ QueueEmpty(qc_msg_queue))
            => qc_cli_pc' = "serial" /\ qc_blink_pc' = qc_blink_pc
       /\ (qc_cli_pc = "send_blocked" /\ qc_cli_pc' # "send_blocked"
              /\ qc_delay_queue' = qc_delay_queue)
            => qc_cli_pc' = "receive" /\ qc_blink_pc' = qc_blink_pc
       /\ (qc_blink_pc = "receive" /\ qc_blink_pc' # "receive" /\ QueueEmpty(qc_delay_queue))
            => qc_blink_pc' = "blink" /\ qc_cli_pc' = qc_cli_pc
       /\ (qc_blink_pc = "send_received_blocked" /\ qc_blink_pc' # "send_received_blocked"
              /\ qc_msg_queue' = qc_msg_queue)
            => qc_blink_pc' = "blink" /\ qc_cli_pc' = qc_cli_pc
       /\ (qc_blink_pc = "send_blinked_blocked" /\ qc_blink_pc' # "send_blinked_blocked"
              /\ qc_msg_queue' = qc_msg_queue)
            => qc_blink_pc' = "receive" /\ qc_cli_pc' = qc_cli_pc
       /\ q5_loop_pc \in Q5_LoopPositions => q5_loop_pc' \in Q5_LoopPositions
       /\ q5_print_pc \in Q5_PrintPositions => q5_print_pc' \in Q5_PrintPositions
       /\ qc_cli_pc \in QC_CliPositions => qc_cli_pc' \in QC_CliPositions
       /\ qc_blink_pc \in QC_BlinkPositions => qc_blink_pc' \in QC_BlinkPositions]_vars

\* loop() printed "Queue full" for a send that timed out and is at its
\* xQueueSend again, printMessages still in its loop.
C16_Witness ==
    /\ q5_full # <<>>
    /\ q5_result = "errQUEUE_FULL"
    /\ q5_loop_pc = "send"
    /\ q5_print_pc \in Q5_PrintPositions

\* The state of secondTask and of the notification it waits for.
MM_SecondState ==
    <<mm_second_pc, mm_notified, mm_value, mm_received_string, mm_second_out>>

\* C17 (allocation failure in the memory challenge): the step in which
\* pvPortMalloc returns NULL for a completed line (the heap has no free
\* block) prints "Memory allocation failed!", sets no notification, changes
\* neither the heap nor the state of secondTask and goes to the statements
\* that clear the buffer; the step after it empties string_input, sets idx to
\* 0 and returns to reading input, again with the heap and secondTask
\* untouched: the line is dropped and pvPortMalloc is not called for it again.
C17_AllocationFailure ==
    [][/\ (mm_first_pc = "malloc" /\ mm_first_pc' # "malloc"
              /\ \A b \in HeapBlocks : mm_heap[b].used)
            => /\ mm_first_out' = "Memory allocation failed!"
               /\ mm_string_send' = 0
               /\ mm_first_pc' = "clear"
               /\ mm_heap' = mm_heap
               /\ MM_SecondState' = MM_SecondState
       /\ (mm_first_pc = "clear" /\ mm_first_pc' # "clear"
              /\ mm_first_out = "Memory allocation failed!")
            => /\ mm_string_input' = <<>>
               /\ mm_idx' = 0
               /\ mm_first_pc' = "serial"
               /\ mm_heap' = mm_heap
               /\ MM_SecondState' = MM_SecondState
       /\ mm_first_pc' = "malloc" /\ mm_first_pc # "malloc"
            => mm_first_pc = "serial" /\ mm_string_input' # <<>>
       /\ mm_first_pc' = "notify" /\ mm_first_pc # "notify"
            => mm_string_send' \in HeapBlocks]_vars

\* A line met an exhausted heap: the failure was reported, the line is gone
\* from the buffer and firstTask reads input again, the program running.
C17_Witness ==
    /\ mm_first_out = "Memory allocation failed!"
    /\ mm_first_pc = "serial"
    /\ mm_string_input = <<>>
    /\ mm_idx = 0
    /\ \A b \in HeapBlocks : mm_heap[b].used
    /\ MM_Running

\* C18 (binary-semaphore argument handoff): bin_sem is created empty, and
\* setup's xSemaphoreTake(bin_sem, portMAX_DELAY) does not return (so setup
\* neither prints "Done!" nor returns) before blinkLED has copied *parameters
\* into num and given bin_sem; once blinkLED has made its copy, num equals the
\* value setup read, whatever happens to setup's stack slot afterwards.
C18_BinaryHandoff ==
    /\ sb_setup_pc = "create_task" => ~SemAvailable(sb_bin_sem)
    /\ sb_setup_pc \in {"print_done", "loop"} => sb_blink_pc \in {"print", "high", "low"}
    /\ sb_blink_pc \in {"give", "print", "high", "low"} => sb_num = sb_sent

\* setup has returned and loop() has overwritten its stack slot with another
\* value, while blinkLED blinks with the value that was sent.
C18_Witness ==
    /\ sb_setup_pc = "loop"
    /\ sb_delay_arg # sb_sent
    /\ sb_blink_pc = "low"
    /\ sb_num = sb_sent
    /\ sb_led = "HIGH"

\* The heap buffers that were handed to xTaskNotify and are not freed.
MM_NotifiedBlocks == { b \in HeapBlocks : mm_heap[b].used /\ mm_heap[b].notified }

\* C19 (memory challenge message delivery): every buffer firstTask has
\* notified is on its way to secondTask (it is the pending notification
\* value, or secondTask holds it and is about to print or free it) until
\* secondTask frees it, and secondTask stays in service for the lines that
\* follow: it never returns from its task function.
C19_EveryLineDelivered ==
    /\ \A b \in MM_NotifiedBlocks :
          \/ mm_notified /\ mm_value = b
          \/ mm_second_pc \in {"print", "free"} /\ mm_received_string = b
    /\ mm_second_pc # "returned"

\* C20 (non-blocking receive): a task at an xQueueReceive with timeout 0 can
\* always take its next step, whatever the queue holds (it is never
\* suspended there); and the step it takes on an empty queue goes on to the
\* next statement and leaves the queue and the destination variable as they
\* were: blinkLED keeps led_delay (and sends no "Message received"), doCLI
\* keeps receive_message.
C20_TryReceive ==
    [][/\ qc_blink_pc = "receive"
            => ENABLED (QC_blink_receive \/ QC_blink_receive_empty)
       /\ qc_cli_pc = "receive"
            => ENABLED (QC_cli_receive \/ QC_cli_receive_empty)
       /\ (qc_blink_pc = "receive" /\ qc_blink_pc' # "receive" /\ QueueEmpty(qc_delay_queue))
            => /\ qc_blink_pc' = "blink"
               /\ qc_delay_queue' = qc_delay_queue
               /\ qc_led_delay' = qc_led_delay
               /\ qc_msg' = qc_msg
       /\ (qc_cli_pc = "receive" /\ qc_cli_pc' # "receive" /\ QueueEmpty(qc_msg_queue))
            => /\ qc_cli_pc' = "serial"
               /\ qc_msg_queue' = qc_msg_queue
               /\ qc_received' = qc_received]_vars

\* The one command typed was "delay 250": blinkLED took it, blinked with it,
\* then found delay_queue empty and is about to blink again, led_delay still
\* 250.
C20_Witness ==
    /\ qc_blink_pc = "blink"
    /\ qc_led_delay = 250
    /\ qc_half_period = 250
    /\ QueueEmpty(qc_delay_queue)
    /\ qc_lines_left = 0
    /\ qc_serial = <<>>
    /\ qc_cli_pc \in {"receive", "serial"}

\* C21 (mutex ownership): every xSemaphoreGive on a mutex is made by the task
\* that holds it, the one whose xSemaphoreTake last succeeded: in the mutex
\* demo by the incTask instance recorded as holder, in the mutex challenge by
\* blinkLED holding the mutex; a mutex is never given while another task or
\* nobody holds it.
C21_GiveByHolder ==
    [][/\ \A i \in IncTasks :
            (m6_pc[i] = "give" /\ m6_pc'[i] # "give") => m6_mutex.pxMutexHolder = i
       /\ (mc_blink_pc = "give" /\ mc_blink_pc' # "give")
            => mc_mutex.pxMutexHolder = "blinkLED"]_vars

\* C22 (launching context termination): in the programs whose loop() is
\* commented as never reached (queue challenge, LED challenge, memory
\* challenge, mutex demo, critical-section demo) the "setup and loop" task
\* never enters loop(): setup ends in vTaskDelete(NULL), so once every task
\* is created the launching task is deleted.
C22_LoopNeverEntered ==
    /\ qc_setup_pc # "loop"
    /\ ts_setup_pc # "loop"
    /\ mm_setup_pc # "loop"
    /\ m6_setup_pc # "loop"
    /\ cs_setup_pc # "loop"

\* The report blinkLED sends after blink_max blinks.
BlinkedReport == [body |-> "Blinked: ", count |-> blink_max]

\* The Messages that exist in the queue challenge: the one blinkLED is
\* building, the one doCLI received last and those waiting in msg_queue.
QC_Messages ==
    {qc_msg, qc_received} \cup { qc_msg_queue.items[k] : k \in 1..Len(qc_msg_queue.items) }

\* C23 (blink report): blinkLED's counter is in 0..blink_max-1 at the top of
\* every loop iteration (and up to the blink); a blink goes on to the send of
\* the report exactly when it is the blink_max-th since the last report; the
\* report is the Message ("Blinked: ", blink_max), sent at most once (the
\* step that ends the send either appends that one Message to msg_queue or,
\* on a timeout, leaves msg_queue as it was) and followed by counter = 0; no
\* "Blinked: " Message anywhere carries another count.
C23_BlinkReport ==
    /\ [](/\ qc_blink_pc \in {"receive", "send_received", "send_received_blocked", "blink"}
             => qc_counter \in 0..(blink_max - 1)
          /\ \A m \in QC_Messages : m.body = "Blinked: " => m.count = blink_max
          /\ qc_blink_pc \in {"send_blinked", "send_blinked_blocked"}
             => qc_msg = BlinkedReport /\ qc_counter = blink_max)
    /\ [][/\ (qc_blink_pc = "blink" /\ qc_blink_pc' # "blink")
               => /\ qc_blink_pc' = "send_blinked" <=> qc_counter = blink_max - 1
                  /\ qc_blink_pc' # "send_blinked" => qc_blink_pc' = "receive"
          /\ (qc_blink_pc \in {"send_blinked", "send_blinked_blocked"}
                 /\ qc_blink_pc' \notin {"send_blinked", "send_blinked_blocked"})
               => /\ qc_blink_pc' = "receive"
                  /\ qc_counter' = 0
                  /\ \/ qc_msg_queue' = QueueSent(qc_msg_queue, BlinkedReport)
                     \/ qc_msg_queue' = qc_msg_queue /\ QueueFull(qc_msg_queue)]_vars

\* doCLI has received the report of 100 blinks and blinkLED is at the top of
\* its loop with the counter back at 0.
C23_Witness ==
    /\ qc_received = BlinkedReport
    /\ qc_counter = 0
    /\ qc_blink_pc = "receive"

\* C24 (ISR-side critical section): every write an interrupt handler makes to
\* state it shares with a task is made inside a critical section that the
\* task-side critical section excludes: isr_counter++ of the
\* critical-section demo, and val = analogRead(adc_pin) of the ISR-semaphore
\* demo.
C24_IsrWriteInCritical ==
    [][/\ cs_fired' # cs_fired => CS_IsrInCritical /\ ~CS_TaskInCritical
       /\ is_fired' # is_fired => IS_IsrInCritical]_vars

\* C25 (sender wake-up): a task blocked in xQueueSend(..., 10) on a full queue
\* (loop() on msg_queue of the queue demo; doCLI on delay_queue and blinkLED
\* on msg_queue of the queue challenge) whose queue got room through a
\* receive leaves the blocked send only by completing it: its item becomes
\* the last item of the queue, behind everything that was waiting, and the
\* call returns pdTRUE (loop() records no "Queue full"); and under the
\* scheduler's fairness it does leave the blocked send.
C25_SenderWakeUp ==
    /\ [][/\ (q5_loop_pc = "send_blocked" /\ ~QueueFull(q5_msg_queue)
                 /\ q5_loop_pc' # "send_blocked")
               => /\ q5_msg_queue'.items = Append(q5_msg_queue.items, q5_num)
                  /\ q5_result' = "pdTRUE"
                  /\ q5_full' = q5_full
          /\ (qc_cli_pc = "send_blocked" /\ ~QueueFull(qc_delay_queue)
                 /\ qc_cli_pc' # "send_blocked")
               => qc_delay_queue'.items = Append(qc_delay_queue.items, qc_cli_delay)
          /\ (qc_blink_pc \in {"send_received_blocked", "send_blinked_blocked"}
                 /\ ~QueueFull(qc_msg_queue) /\ qc_blink_pc' # qc_blink_pc)
               => qc_msg_queue'.items = Append(qc_msg_queue.items, qc_msg)]_vars
    /\ (q5_loop_pc = "send_blocked" /\ ~QueueFull(q5_msg_queue))
          ~> (q5_loop_pc = "inc" /\ q5_result = "pdTRUE")
    /\ (qc_cli_pc = "send_blocked" /\ ~QueueFull(qc_delay_queue))
          ~> (qc_cli_pc = "receive")
    /\ (qc_blink_pc = "send_received_blocked" /\ ~QueueFull(qc_msg_queue))
          ~> (qc_blink_pc = "blink")
    /\ (qc_blink_pc = "send_blinked_blocked" /\ ~QueueFull(qc_msg_queue))
          ~> (qc_blink_pc = "receive")

\* loop() is blocked in its send of num on the queue that was full, and
\* printMessages has just removed the oldest item: there is room for one.
C25_Witness ==
    /\ q5_loop_pc = "send_blocked"
    /\ Len(q5_msg_queue.items) = q5_msg_queue_len - 1
    /\ q5_printed # <<>>
    /\ q5_num \notin { q5_msg_queue.items[k] : k \in 1..Len(q5_msg_queue.items) }

\* C26 (one-shot task termination): every myTask instance of the
\* counting-semaphore demo calls xSemaphoreGive(sem_params) exactly once (the
\* step that leaves the give is taken with no give made before, and records
\* its result; later steps keep it), never goes back after it is deleted,
\* and under fair scheduling there comes a time after which every instance
\* that was created is deleted (vTaskDelete(NULL)), with its one give made,
\* whether that give returned pdTRUE or errQUEUE_FULL.
C26_OneShotTasks ==
    /\ [][\A t \in ScTasks :
            /\ (sc_pc[t] = "give" /\ sc_pc'[t] # "give")
                 => sc_given[t] = "none" /\ sc_given'[t] \in {"pdTRUE", "errQUEUE_FULL"}
            /\ sc_pc[t] # "give" => sc_given'[t] = sc_given[t]
            /\ sc_pc[t] = "deleted" => sc_pc'[t] = "deleted"]_vars
    /\ [](\A t \in ScTasks : sc_pc[t] \in {"print", "delete", "deleted"} <=> sc_given[t] # "none")
    /\ <>[](\A t \in ScTasks : sc_pc[t] \in {"off", "deleted"})

\* All six instances are deleted, and the give of one of them found the
\* semaphore at its maximum.
C26_Witness ==
    /\ \A t \in ScTasks : sc_pc[t] = "deleted"
    /\ \E t \in ScTasks : sc_given[t] = "errQUEUE_FULL"

\* C27 (writes only by the holder): in the mutex demo every step that reads
\* shared_var into local_var, stores local_var to shared_var or prints
\* shared_var is taken by the incTask instance that holds mutex, and
\* shared_var changes in no other step: a task that has not acquired the
\* mutex never mutates it.
C27_WritesByHolder ==
    [][/\ \A i \in IncTasks :
            (m6_pc[i] \in {"read", "write", "print"} /\ m6_pc'[i] # m6_pc[i])
                => ~SemAvailable(m6_mutex) /\ m6_mutex.pxMutexHolder = i
       /\ m6_shared_var' # m6_shared_var
            => \E i \in IncTasks :
                  /\ m6_pc[i] = "write" /\ m6_pc'[i] = "print"
                  /\ m6_mutex.pxMutexHolder = i
                  /\ m6_shared_var' = m6_local_var[i]]_vars

\* The second store has been made by the holder, which is about to print,
\* while the other instance is at its xSemaphoreTake without the mutex.
C27_Witness ==
    /\ m6_stores = 2
    /\ \E i \in IncTasks :
          /\ m6_pc[i] = "print"
          /\ m6_mutex.pxMutexHolder = i
          /\ \A j \in IncTasks \ {i} : m6_pc[j] = "take"

\* C28 (deferred-interrupt signalling): in the ISR-semaphore demo only
\* onTimer writes val and only onTimer gives bin_sem; printValues reaches its
\* Serial.println(val) only by taking bin_sem; the values printed, the print
\* in progress and the pending signal together never outnumber the firings
\* of the timer; bin_sem never counts more than 1; and every printed value is
\* the content of val at the time of the print, written by a firing that
\* came before it.
C28_DeferredSignalling ==
    /\ [](/\ Len(is_printed) + (IF is_task_pc = "print" THEN 1 ELSE 0)
                + is_bin_sem.uxMessagesWaiting <= is_fired
          /\ is_bin_sem.uxMessagesWaiting <= 1)
    /\ [][/\ is_val' # is_val => is_fired' = is_fired + 1
          /\ is_bin_sem'.uxMessagesWaiting > is_bin_sem.uxMessagesWaiting
               => is_fired' = is_fired + 1
          /\ (is_task_pc' = "print" /\ is_task_pc # "print")
               => SemAvailable(is_bin_sem) /\ is_bin_sem' = SemTaken(is_bin_sem, "none")
          /\ is_printed' # is_printed
               => /\ is_task_pc = "print"
                  /\ is_fired >= 1
                  /\ is_printed' = Append(is_printed, is_val)]_vars

\* Three firings, two of them while printValues was busy, have left one
\* value printed and one signal pending.
C28_Witness ==
    /\ is_fired = 3
    /\ is_printed = <<1>>
    /\ is_bin_sem.uxMessagesWaiting = 1
    /\ is_task_pc = "take"

\* The members of a sequence.
Range(seq) == { seq[k] : k \in 1..Len(seq) }

\* C29 (failed send leaves the channel unchanged): a send that gives up after
\* its 10 ticks with the queue still full leaves the queue exactly as it was
\* (same items, same order), in the queue demo and for the three sends of
\* the queue challenge; in the queue demo loop() prints "Queue full" in
\* exactly those steps (the call returned errQUEUE_FULL), and a value that
\* was rejected is never in the queue and never printed by printMessages
\* afterwards.
C29_FailedSendUnchanged ==
    /\ [][/\ (q5_loop_pc = "send_blocked" /\ q5_loop_pc' # "send_blocked"
                 /\ QueueFull(q5_msg_queue))
               => /\ q5_msg_queue' = q5_msg_queue
                  /\ q5_result' = "errQUEUE_FULL"
                  /\ q5_full' = Append(q5_full, q5_num)
                  /\ q5_sent' = q5_sent
          /\ q5_full' # q5_full
               <=> (q5_loop_pc \in {"send", "send_blocked"} /\ q5_loop_pc' = "inc"
                       /\ q5_msg_queue' = q5_msg_queue)
          /\ (qc_cli_pc = "send_blocked" /\ qc_cli_pc' # "send_blocked"
                 /\ QueueFull(qc_delay_queue))
               => qc_delay_queue' = qc_delay_queue
          /\ (qc_blink_pc \in {"send_received_blocked", "send_blinked_blocked"}
                 /\ qc_blink_pc' # qc_blink_pc /\ QueueFull(qc_msg_queue))
               => qc_msg_queue' = qc_msg_queue]_vars
    /\ [](Range(q5_full) \cap (Range(q5_msg_queue.items) \cup Range(q5_printed)
                                   \cup Range(q5_sent)) = {})

\* loop() printed "Queue full" for a value, and the value it sent next has
\* since been received and printed: the rejected one was skipped for good.
C29_Witness ==
    /\ q5_full # <<>>
    /\ q5_full[1] + 1 \in Range(q5_printed)
    /\ q5_full[1] \notin Range(q5_printed)

\* doCLI has just read the '\n' or '\r' that ends a line.
QC_LineDone ==
    /\ qc_cli_pc = "serial"
    /\ qc_cli_pc' # "serial"
    /\ qc_serial # <<>>
    /\ Head(qc_serial) \in {"\n", "\r"}

\* The first 6 bytes of the line buffer, the character just read stored in
\* it if there was room, are "delay ".
QC_LineHasPrefix ==
    LET b == IF qc_idx < buf_len - 1 THEN Append(qc_buf, Head(qc_serial)) ELSE qc_buf
    IN  /\ Len(b) >= 6
        /\ <<b[1], b[2], b[3], b[4], b[5], b[6]>> = <<"d", "e", "l", "a", "y", " ">>

\* C30 (command recognition): when doCLI completes a line, it goes on to the
\* xQueueSend on delay_queue if and only if the first 6 bytes of the line
\* buffer are "delay "; a line without the prefix sends nothing and clears
\* buf and idx at once; the send, whether it put the value on the queue or
\* gave up, clears buf and idx as well, and only that send adds to
\* delay_queue; so whenever doCLI is about to read a character, buf holds
\* the idx characters of the current line only, none of them a line end.
C30_CommandRecognition ==
    /\ [][/\ QC_LineDone =>
               IF QC_LineHasPrefix
               THEN qc_cli_pc' = "send" /\ qc_delay_queue' = qc_delay_queue
               ELSE /\ qc_cli_pc' = "receive"
                    /\ qc_buf' = <<>> /\ qc_idx' = 0
                    /\ qc_delay_queue' = qc_delay_queue
          /\ (qc_cli_pc' = "send" /\ qc_cli_pc # "send") => QC_LineDone /\ QC_LineHasPrefix
          /\ (qc_cli_pc \in {"send", "send_blocked"} /\ qc_cli_pc' \notin {"send", "send_blocked"})
               => /\ qc_cli_pc' = "receive"
                  /\ qc_buf' = <<>> /\ qc_idx' = 0
                  /\ \/ qc_delay_queue' = QueueSent(qc_delay_queue, qc_cli_delay)
                     \/ qc_delay_queue' = qc_delay_queue /\ QueueFull(qc_delay_queue)
          /\ Len(qc_delay_queue'.items) > Len(qc_delay_queue.items)
               => qc_cli_pc \in {"send", "send_blocked"} /\ qc_cli_pc' = "receive"]_vars
    /\ [](qc_cli_pc \in {"receive", "serial"}
            => /\ qc_idx = Len(qc_buf)
               /\ \A k \in 1..Len(qc_buf) : qc_buf[k] \notin {"\n", "\r"})

\* "delay" and then "delay 43" were typed: the first line sent nothing, the
\* second put 43 on delay_queue, and the buffer is clear again.
C30_Witness ==
    /\ qc_delay_queue.items = <<43>>
    /\ qc_serial = <<>>
    /\ qc_buf = <<>>
    /\ qc_idx = 0
    /\ qc_cli_pc = "receive"

\* Each member of seq is larger than the one before it.
StrictlyIncreasing(seq) == \A k \in 1..(Len(seq) - 1) : seq[k] < seq[k + 1]

\* The number of sends loop() has finished: num counts the iterations, and
\* the send of the current iteration is done once loop() is at num++.
Q5_Attempts == IF q5_loop_pc = "inc" THEN q5_num + 1 ELSE q5_num

\* C31 (queue demo producer/consumer): loop() passes num++ once in every
\* iteration, after a send that succeeded as well as after one that returned
\* errQUEUE_FULL, and nothing else changes num; the values printed by
\* printMessages, followed by those still in the queue, are the values
\* 0, 1, 2, ... of the finished sends in increasing order without the ones
\* for which "Queue full" was printed, so what is printed is strictly
\* increasing and has no duplicates.
C31_ProducerConsumer ==
    /\ [][/\ q5_num' # q5_num => q5_loop_pc = "inc" /\ q5_num' = q5_num + 1
          /\ (q5_loop_pc = "inc" /\ q5_loop_pc' # "inc")
               => q5_num' = q5_num + 1 /\ q5_loop_pc' = "delay"
          /\ (q5_loop_pc \in {"send", "send_blocked"} /\ q5_loop_pc' # q5_loop_pc)
               => q5_loop_pc' \in {"send_blocked", "inc"}
          /\ (q5_loop_pc' = "inc" /\ q5_loop_pc # "inc")
               => q5_result' \in {"pdTRUE", "errQUEUE_FULL"}]_vars
    /\ [](/\ q5_printed \o q5_msg_queue.items = q5_sent
          /\ StrictlyIncreasing(q5_sent)
          /\ StrictlyIncreasing(q5_printed)
          /\ Range(q5_sent) = (0..(Q5_Attempts - 1)) \ Range(q5_full)
          /\ Range(q5_full) \subseteq 0..(Q5_Attempts - 1))

\* "Queue full" was printed for one value, and printMessages has since
\* printed six values, the last of them larger than the rejected one.
C31_Witness ==
    /\ Len(q5_printed) >= 6
    /\ Len(q5_full) = 1
    /\ q5_printed[Len(q5_printed)] > q5_full[1]
    /\ q5_printed[1] < q5_full[1]

\* C32 (isr_counter is never negative): in the critical-section demo the
\* counter is never below 0; from the test isr_counter > 0 that let it into
\* the loop body up to its decrement printValues always finds the counter
\* at 1 or more, whatever firings of onTimer come in between, and the
\* decrement takes exactly 1 off the value the counter has at that time.
C32_CounterNeverNegative ==
    /\ [](/\ cs_isr_counter >= 0
          /\ cs_task_pc \in {"print", "enter", "dec_load", "dec_store"} => cs_isr_counter >= 1
          /\ cs_task_pc = "dec_store" => cs_reg = cs_isr_counter
          /\ cs_isr_counter = cs_fired - cs_decs)
    /\ [][cs_isr_counter' < cs_isr_counter
            => /\ cs_task_pc = "dec_store"
               /\ cs_isr_counter >= 1
               /\ cs_isr_counter' = cs_isr_counter - 1]_vars

\* printValues printed 1, onTimer fired before the task entered its critical
\* section, and the decrement is about to store 1 over a counter of 2.
C32_Witness ==
    /\ cs_task_pc = "dec_store"
    /\ cs_printed = <<1>>
    /\ cs_isr_counter = 2
    /\ cs_reg = 2

\* C33 (no use after free in the memory challenge): when firstTask executes
\* Serial.println(string_send) after its xTaskNotify, the block string_send
\* points to is still allocated, and when secondTask executes
\* vPortFree(received_string) the block it frees is allocated.
C33_NoUseAfterFree ==
    [][/\ (mm_first_pc = "print" /\ mm_first_pc' # "print") => mm_heap[mm_string_send].used
       /\ (mm_second_pc = "free" /\ mm_second_pc' # "free") => mm_heap[mm_received_string].used]_vars

\* No block is freed twice: every vPortFree finds its block allocated.
MM_NoDoubleFree ==
    [][(mm_second_pc = "free" /\ mm_second_pc' # "free") => mm_heap[mm_received_string].used]_vars

\* C34 (message body bound): every strcpy into a Message.body writes at
\* most the 20 bytes of body, the terminating NUL included: the copy of text
\* in setup of the counting-semaphore demo, and the copies of "Message
\* received " and "Blinked: " in blinkLED of the queue challenge.
C34_BodyBound ==
    [][/\ sc_msg_input' # sc_msg_input => strcpy_bytes(ScText) <= body_size
       /\ qc_msg' # qc_msg => strcpy_bytes(qc_msg'.body) <= body_size]_vars

\* The two copies of the queue challenge fit in body.
QC_BodyBound == [][qc_msg' # qc_msg => strcpy_bytes(qc_msg'.body) <= body_size]_vars

\* C35 (line buffer bound in doCLI): idx stays within 0..buf_len - 1 and is
\* the number of bytes stored in buf since it was cleared, so the last byte
\* of buf, buf[buf_len - 1], is never written and is still the 0 of the
\* memset; a byte is stored only at buf[idx] with idx < buf_len - 1; and a
\* '\n' or '\r' read when buf is full (idx = buf_len - 1) still ends the
\* line: doCLI goes on to the send or clears buf and idx at once.
C35_LineBufferBound ==
    /\ [](/\ qc_idx \in 0..(buf_len - 1)
          /\ Len(qc_buf) = qc_idx)
    /\ [][/\ Len(qc_buf') > Len(qc_buf)
               => /\ qc_idx < buf_len - 1
                  /\ qc_cli_pc = "serial" /\ qc_serial # <<>>
                  /\ qc_buf' = Append(qc_buf, Head(qc_serial))
                  /\ qc_idx' = qc_idx + 1
          /\ (QC_LineDone /\ qc_idx = buf_len - 1)
               => /\ qc_buf' \in {qc_buf, <<>>}
                  /\ \/ qc_cli_pc' = "send" /\ QC_LineHasPrefix
                     \/ qc_cli_pc' = "receive" /\ qc_buf' = <<>> /\ qc_idx' = 0
          /\ (qc_cli_pc \in {"send", "send_blocked"} /\ qc_cli_pc' = "receive")
               => qc_buf' = <<>> /\ qc_idx' = 0]_vars

\* A line longer than buf was typed: buf filled up, the characters after
\* that were dropped, and the '\n' that ended the line, not stored either,
\* was recognised; the buffer has been cleared since.
C35_Witness ==
    /\ qc_serial = <<>>
    /\ qc_buf = <<>>
    /\ qc_idx = 0
    /\ qc_lines_left = 1
    /\ qc_cli_delay = abs(atoi([k \in 1..(buf_len - 1 - cmd_len) |-> "1"]))
    /\ qc_cli_pc = "receive"

\* The positions of a task inside an xQueueSend.
QC_CliInSend == qc_cli_pc \in {"send", "send_blocked"}
QC_BlinkInSend ==
    qc_blink_pc \in {"send_received", "send_received_blocked", "send_blinked", "send_blinked_blocked"}

C37_StarvationFreedom == \A i \in IncTasks : []<>(m6_pc[i] = "give")

\* The scheduler is strongly fair to the takes: a task that polls the
\* mutex again and again at moments when it is free takes it in the end.
M6_StronglyFairTakes == \A i \in IncTasks : SF_vars(M6_take_unbounded(i))

\* C37 as it holds: under weakly fair scheduling the mutex is never held
\* for ever and increments are completed for ever, by one task or the
\* other; each single task completes increments for ever if the scheduler
\* is also strongly fair to its takes.
C37_ProgressNotFairness ==
    /\ []<>(\E i \in IncTasks : m6_pc[i] = "give")
    /\ []<>(M6_InCritical = {})
    /\ (M6_StronglyFairTakes => C37_StarvationFreedom)

\* Task 1 has completed three increments and is about to give the mutex,
\* while task 2 has been polling for it and has not yet been in the
\* critical section once.
C37_Witness ==
    /\ m6_pc[1] = "give"
    /\ m6_pc[2] = "take"
    /\ m6_mutex.pxMutexHolder = 1
    /\ m6_shared_var = 3
    /\ m6_local_var[2] = 0

\* C38 (handoff completes): in the mutex challenge and in the binary
\* semaphore program, under fair scheduling, setup once blocked in the
\* xSemaphoreTake that follows the creation of blinkLED gets past it, prints
\* "Done!" and returns; while it is blocked with nothing to take, blinkLED
\* has its xSemaphoreGive still ahead of it, so the handoff never deadlocks.
C38_HandoffCompletes ==
    /\ [](/\ (mc_setup_pc = "take2" /\ ~SemAvailable(mc_mutex)) => mc_blink_pc \in {"copy", "give"}
          /\ (sb_setup_pc = "take" /\ ~SemAvailable(sb_bin_sem)) => sb_blink_pc \in {"copy", "give"})
    /\ (mc_setup_pc = "take2" ~> mc_setup_pc = "print_done")
    /\ (mc_setup_pc = "print_done" ~> mc_setup_pc = "loop")
    /\ (sb_setup_pc = "take" ~> sb_setup_pc = "print_done")
    /\ (sb_setup_pc = "print_done" ~> sb_setup_pc = "loop")

\* setup of the mutex challenge is past its second take, about to print
\* "Done!", the mutex given by blinkLED in its hands.
C38_Witness ==
    /\ mc_setup_pc = "print_done"
    /\ mc_mutex.pxMutexHolder = "setup"
    /\ mc_blink_pc = "print"
    /\ mc_num = mc_sent

\* The acknowledgement blinkLED builds after a successful receive.
QC_Acknowledgement == [body |-> "Message received ", count |-> 1]

\* blinkLED is in its xQueueSend of the acknowledgement.
QC_BlinkInAcknowledge == qc_blink_pc \in {"send_received", "send_received_blocked"}

\* C39: in every step of the queue challenge,
\*  - led_delay of blinkLED changes only in a step that takes the oldest item
\*    out of delay_queue and stores it in led_delay;
\*  - delay_queue changes only by doCLI's successful send, which appends
\*    doCLI's value behind the queued ones, or by blinkLED's receive, which
\*    removes exactly the oldest one, stores it in led_delay, builds
\*    {"Message received ", 1} and goes on to the send on msg_queue; so the
\*    values led_delay takes are the values enqueued, in the order enqueued;
\*  - that send is attempted once: blinkLED leaves it for the blink, with the
\*    acknowledgement appended to msg_queue or msg_queue as it was;
\*  - blinkLED comes back to the receive only by a blink, so at most one
\*    queued value is consumed per blink cycle.
C39_RateAdoptionOrder ==
    [][/\ qc_led_delay' # qc_led_delay =>
            /\ qc_blink_pc = "receive"
            /\ qc_delay_queue.items # <<>>
            /\ qc_led_delay' = qc_delay_queue.items[1]
            /\ qc_delay_queue'.items = Tail(qc_delay_queue.items)
       /\ qc_delay_queue'.items # qc_delay_queue.items =>
            \/ /\ qc_cli_pc \in {"send", "send_blocked"}
               /\ qc_cli_pc' = "receive"
               /\ qc_delay_queue'.items = Append(qc_delay_queue.items, qc_cli_delay)
               /\ UNCHANGED <<qc_led_delay, qc_blink_pc>>
            \/ /\ qc_blink_pc = "receive"
               /\ qc_delay_queue.items # <<>>
               /\ qc_delay_queue'.items = Tail(qc_delay_queue.items)
               /\ qc_led_delay' = qc_delay_queue.items[1]
               /\ qc_msg' = QC_Acknowledgement
               /\ qc_blink_pc' = "send_received"
               /\ UNCHANGED qc_cli_pc
       /\ (qc_blink_pc = "receive" /\ qc_blink_pc' = "send_received") =>
            qc_delay_queue'.items # qc_delay_queue.items
       /\ (QC_BlinkInAcknowledge /\ qc_blink_pc' # qc_blink_pc) =>
            /\ qc_msg = QC_Acknowledgement
            /\ UNCHANGED <<qc_msg, qc_led_delay, qc_delay_queue>>
            /\ \/ qc_blink_pc = "send_received" /\ qc_blink_pc' = "send_received_blocked"
                    /\ UNCHANGED qc_msg_queue
               \/ qc_blink_pc' = "blink" /\ UNCHANGED qc_msg_queue
               \/ qc_blink_pc' = "blink"
                    /\ qc_msg_queue'.items = Append(qc_msg_queue.items, QC_Acknowledgement)
       /\ (qc_blink_pc # "receive" /\ qc_blink_pc' = "receive") =>
            \/ qc_blink_pc = "off"
            \/ qc_blinks_left' = qc_blinks_left - 1
            \/ qc_blink_pc \in {"send_blinked", "send_blinked_blocked"}
      ]_vars

\* C39 witness: blinkLED adopted 42, blinked with it, then adopted the 7 that
\* was enqueued after it, and is past the acknowledgement of the second one.
C39_Witness ==
    /\ qc_blink_pc = "blink"
    /\ qc_half_period = 42
    /\ qc_led_delay = 7
    /\ qc_msg = QC_Acknowledgement
    /\ Len(qc_msg_queue.items) >= 1
    /\ qc_msg_queue.items[Len(qc_msg_queue.items)] = QC_Acknowledgement

====
